---- MODULE Spec2Model ----
(***************************************************************************)
(* Model of the worker-pool scraping manager (financial_scraper_module.js) *)
(* and of the execution unit it launches (financial_scraper_worker.js).    *)
(*                                                                         *)
(* Items (companies) are the integers 1..M.  A record scraped for an item  *)
(* is the pair <<item, j>>.  The output file is the bag of its complete    *)
(* lines: concurrent appends land in an order the program does not         *)
(* control, and nothing below depends on it.                               *)
(***************************************************************************)
EXTENDS Integers, Sequences, FiniteSets, Bags, TLC

\* ---------------------------------------------------------------- bounds
MaxItems == 3
MaxWorkers == 2
MaxUnits == 5
MaxRetries == 2
MaxFaults == 1
MaxChunkItems == 12
MaxChunkWorkers == 7
MaxWorkerChunk == 3
\* items of the chunk in RetrySpec
MaxRetryItems == 2
\* list lengths and worker counts of LiveSpec
MaxLiveItems == 1
MaxLiveWorkers == 3

\* ------------------------------------------------- defaults of the code
DefaultNumberOfWorkers == 1
DefaultScraperPauseMs == 2000
DefaultPageTimeoutMs == 60000
DefaultMaxRetriesPerCompany == 0
DefaultRetryDelayMs == 3000

Units == 1..MaxUnits

VARIABLES
    options,        \* the options argument of scrapeFinancialDetails
    cookiesFile,    \* content of the file at cookiesFilePath
    pipeline,       \* runPipeline: its position, configuration, status and effects
    fileBytes,      \* the output file as the text written to it, piece by piece
    writes,         \* appendFile calls in flight, each with the text still to write
    log,            \* unit -> what runWorker did so far, in order
    parsed,         \* what parseJsonl returned for the text of the file
    companiesFile,  \* content of the companies file: the item list
    companiesData,  \* the list the manager loaded
    companyChunks,  \* the chunks the manager built
    mpc,            \* position of scrapeFinancialDetails
    overallSuccess, \* the manager's flag
    result,         \* value returned by scrapeFinancialDetails ("none" before)
    launched,       \* the units for which a Worker was created
    promise,        \* unit -> state of its workerPromise
    outputFile,     \* bag of the lines of the output file
    inflight,       \* appendFile calls started and not yet completed
    appendFailed,   \* batches whose appendFile was rejected
    handled,        \* unit -> number of its messages the manager handled
    evError,        \* unit -> state of the worker's 'error' event
    evExit,         \* unit -> state of the worker's 'exit' event
    workerData,     \* unit -> the workerData it was created with
    upc,            \* unit -> position of runWorker
    idx,            \* unit -> i, index of the current company (0-based)
    attempt,        \* unit -> attempt, index of the current attempt
    posted,         \* unit -> every message it posted, in order
    attempts,       \* item -> what each attempt made for it ended as
    site,           \* item -> outcomes the remote site can give for it
    faultsLeft      \* environment faults (crash, I/O failure) still to come

vars == <<options, cookiesFile, pipeline, parsed, fileBytes, writes, companiesFile, companiesData, companyChunks, mpc,
          overallSuccess, result, launched, promise, outputFile, inflight,
          appendFailed, handled, evError, evExit, workerData, upc, idx,
          attempt, posted, attempts, site, faultsLeft, log>>

managerVars == <<options, cookiesFile, pipeline, parsed, fileBytes, writes, companiesFile, companiesData, companyChunks, mpc,
                 overallSuccess, result, launched, promise, outputFile,
                 inflight, appendFailed, handled, evError, evExit>>

unitVars == <<workerData, upc, idx, attempt, posted, attempts, log>>

\* ------------------------------------------------------------- helpers
\* runPipeline is not running
NoPipeline == [pc |-> "off"]

Min(a, b) == IF a < b THEN a ELSE b

\* variant: rounds up by adding one to the floor, also when b divides a
CeilFloorPlusOne(a, b) == (a \div b) + 1

\* Math.ceil(a / b) for a >= 0, b >= 1
Ceil(a, b) == (a + b - 1) \div b

\* variant: slice(from, to - 1), the last element of each slice is lost
SliceDropLast(s, from, to) == SubSeq(s, from + 1, Min(to, Len(s)) - 1)

\* Array.prototype.slice(from, to) with 0 <= from <= to (0-based, to excluded)
Slice(s, from, to) == SubSeq(s, from + 1, Min(to, Len(s)))

\* `const { x = d } = o`: the field, or the default when it is missing
Get(o, f, d) == IF f \in DOMAIN o THEN o[f] ELSE d

Range(s) == {s[k] : k \in DOMAIN s}

RECURSIVE Concat(_)
Concat(ss) == IF ss = <<>> THEN <<>> ELSE Head(ss) \o Concat(Tail(ss))

Iota(m) == [k \in 1..m |-> k]

\* an attempt's outcome: failure, or success with n scraped rounds
Failure == [ok |-> FALSE, n |-> 0]
Success(n) == [ok |-> TRUE, n |-> n]
\* numbers of funding rounds a page can show: none, one, several
RoundCounts == {0, 1, 2}

Outcomes == {Failure} \cup {Success(n) : n \in RoundCounts}

\* an attempt that throws before it has a page: browser.newPage() rejects
NoPage == [ok |-> FALSE, n |-> 0, why |-> "newPage"]
\* an attempt that throws a TimeoutError: page.goto or page.waitForSelector
Timeout == [ok |-> FALSE, n |-> 0, why |-> "timeout"]
\* the ways an attempt can throw
Failures == {Failure, NoPage, Timeout}

\* the outcomes explored for a whole run: failure, success without a record,
\* success with several records
RunOutcomes == {Failure, Success(0), Success(2)}

\* messages of the unit -> manager protocol
DataMsg(x, n) == [type |-> "data", item |-> x, n |-> n, reason |-> 0]
\* variant: the final failure is posted with the type of a result
ErrorSentAsData(x, r) == [type |-> "data", item |-> x, n |-> 1, reason |-> r]

ErrorMsg(x, r) == [type |-> "error", item |-> x, n |-> 0, reason |-> r]
DoneMsg == [type |-> "done", item |-> 0, n |-> 0, reason |-> 0]

\* reasons of the two session-level error messages (no item is named)
CookieFault == -1
CriticalFault == -2

\* the lines message.payload.map(JSON.stringify).join('\n') + '\n' writes
Lines(b) == {<<b.item, j>> : j \in 1..b.n}

LinesBag(b) == SetToBag(Lines(b))

StaleLine == <<0, 1>>

NoUnit == [u \in Units |-> 0]

\* an environment fault happens: one less is left to come
Fault == faultsLeft > 0 /\ faultsLeft' = faultsLeft - 1

\* ================================================================ manager
\* the chunking loop: for (i = 0; i < total; i += chunkSize) push(slice(i, i + chunkSize))
RECURSIVE ChunkLoop(_, _, _, _)
ChunkLoop(data, chunkSize, i, chunks) ==
    IF i < Len(data)
    THEN ChunkLoop(data, chunkSize, i + chunkSize,
                   Append(chunks, Slice(data, i, i + chunkSize)))
    ELSE chunks

\* with numberOfWorkers < 0 and a non-empty list, chunkSize is negative or
\* -0, i never reaches totalCompanies and the chunk loop never ends
ChunkLoopDiverges(data, numberOfWorkers) ==
    numberOfWorkers < 0 /\ Len(data) > 0

\* with numberOfWorkers = 0, chunkSize is Infinity for a non-empty list (one
\* chunk, the whole list) and NaN for an empty one (no chunk); with
\* numberOfWorkers < 0 and an empty list the loop is not entered
SplitChunks(data, numberOfWorkers) ==
    IF numberOfWorkers >= 1
    THEN ChunkLoop(data, Ceil(Len(data), numberOfWorkers), 0, <<>>)
    ELSE IF numberOfWorkers = 0 /\ Len(data) > 0 THEN <<data>> ELSE <<>>

NumberOfWorkers == Get(options, "numberOfWorkers", DefaultNumberOfWorkers)

\* variant: the launch loop stops one chunk early
SlotsToLaunchOffByOne(chunks, numberOfWorkers) ==
    {u \in 1..numberOfWorkers : u < Len(chunks) /\ Len(chunks[u]) > 0}

\* the worker slots for which the launch loop creates a Worker
SlotsToLaunch(chunks, numberOfWorkers) ==
    {u \in 1..numberOfWorkers : u <= Len(chunks) /\ Len(chunks[u]) > 0}

\* the options object the manager puts into workerData
WorkerOptions(opts) ==
    [scraperPauseMs |-> Get(opts, "scraperPauseMs", DefaultScraperPauseMs),
     pageTimeoutMs  |-> Get(opts, "pageTimeoutMs", DefaultPageTimeoutMs)]

\* variant: every unit is handed the whole list instead of its chunk
MakeWorkerDataWholeList(u, chunks, opts) ==
    [workerId |-> u, companiesChunk |-> Concat(chunks), options |-> WorkerOptions(opts)]

MakeWorkerData(u, chunks, opts) ==
    [workerId |-> u, companiesChunk |-> chunks[u], options |-> WorkerOptions(opts)]

\* variant: a call on a settled promise turns it into a rejected one
SettleOrReject(p, to) == IF p = "pending" THEN to ELSE "rejected"

\* resolve()/reject() of a promise: only the first call has an effect
Settle(p, to) == IF p = "pending" THEN to ELSE p

LoadCompaniesOk ==
    /\ mpc = "start"
    /\ companiesFile.valid
    /\ companiesData' = companiesFile.items
    /\ mpc' = "loaded"
    /\ UNCHANGED <<options, cookiesFile, pipeline, parsed, fileBytes, writes, companiesFile, companyChunks, overallSuccess, result,
                   launched, promise, outputFile, inflight, appendFailed, handled,
                   evError, evExit, site, faultsLeft>>
    /\ UNCHANGED unitVars

\* variant: the output file is emptied before the companies file is loaded
LoadCompaniesFailAfterInit ==
    /\ mpc = "start"
    /\ ~companiesFile.valid
    /\ outputFile' = EmptyBag
    /\ mpc' = "aborted"
    /\ result' = "false"
    /\ UNCHANGED <<options, cookiesFile, pipeline, parsed, fileBytes, writes, companiesFile, companiesData,
                   companyChunks, overallSuccess, launched, promise, inflight,
                   appendFailed, handled, evError, evExit, site, faultsLeft>>
    /\ UNCHANGED unitVars

LoadCompaniesFail ==
    /\ mpc = "start"
    /\ ~companiesFile.valid
    /\ mpc' = "aborted"
    /\ result' = "false"
    /\ UNCHANGED <<options, cookiesFile, pipeline, parsed, fileBytes, writes, companiesFile, companiesData, companyChunks,
                   overallSuccess, launched, promise, outputFile, inflight,
                   appendFailed, handled, evError, evExit, site, faultsLeft>>
    /\ UNCHANGED unitVars

\* variant: the output file is opened without being emptied
InitOutputKeep ==
    /\ mpc = "loaded"
    /\ mpc' = "initialized"
    /\ UNCHANGED <<options, cookiesFile, pipeline, parsed, fileBytes, writes, companiesFile, companiesData, companyChunks,
                   overallSuccess, result, launched, promise, outputFile,
                   inflight, appendFailed, handled, evError, evExit, site,
                   faultsLeft>>
    /\ UNCHANGED unitVars

InitOutputOk ==
    /\ mpc = "loaded"
    /\ outputFile' = EmptyBag
    /\ mpc' = "initialized"
    /\ UNCHANGED <<options, cookiesFile, pipeline, parsed, fileBytes, writes, companiesFile, companiesData, companyChunks,
                   overallSuccess, result, launched, promise, inflight,
                   appendFailed, handled, evError, evExit, site, faultsLeft>>
    /\ UNCHANGED unitVars

InitOutputFail ==
    /\ mpc = "loaded"
    /\ mpc' = "aborted"
    /\ result' = "false"
    /\ UNCHANGED <<options, cookiesFile, pipeline, parsed, fileBytes, writes, companiesFile, companiesData, companyChunks,
                   overallSuccess, launched, promise, outputFile, inflight,
                   appendFailed, handled, evError, evExit, site, faultsLeft>>
    /\ UNCHANGED unitVars

\* the chunk loop never ends: scrapeFinancialDetails does not return
SplitDiverges ==
    /\ mpc = "initialized"
    /\ ChunkLoopDiverges(companiesData, NumberOfWorkers)
    /\ mpc' = "diverged"
    /\ UNCHANGED <<options, cookiesFile, pipeline, parsed, fileBytes, writes, companiesFile, companiesData, companyChunks,
                   overallSuccess, result, launched, promise, outputFile,
                   inflight, appendFailed, handled, evError, evExit, site,
                   faultsLeft>>
    /\ UNCHANGED unitVars

SplitCompanies ==
    /\ mpc = "initialized"
    /\ ~ChunkLoopDiverges(companiesData, NumberOfWorkers)
    /\ companyChunks' = SplitChunks(companiesData, NumberOfWorkers)
    /\ mpc' = "split"
    /\ UNCHANGED <<options, cookiesFile, pipeline, parsed, fileBytes, writes, companiesFile, companiesData, overallSuccess, result,
                   launched, promise, outputFile, inflight, appendFailed, handled,
                   evError, evExit, site, faultsLeft>>
    /\ UNCHANGED unitVars

LaunchWorkers ==
    /\ mpc = "split"
    /\ launched' = SlotsToLaunch(companyChunks, NumberOfWorkers)
    /\ workerData' = [u \in launched' |-> MakeWorkerData(u, companyChunks, options)]
    /\ promise' = [u \in Units |-> IF u \in launched' THEN "pending" ELSE "none"]
    /\ upc' = [u \in Units |-> IF u \in launched' THEN "start" ELSE "idle"]
    /\ mpc' = "waiting"
    /\ UNCHANGED <<options, cookiesFile, pipeline, parsed, fileBytes, writes, companiesFile, companiesData, companyChunks,
                   overallSuccess, result, outputFile, inflight, appendFailed,
                   handled, evError, evExit, idx, attempt, posted, attempts, site,
                   faultsLeft, log>>

\* the next message of unit u the manager has not handled yet
NextMsg(u) == posted[u][handled[u] + 1]

\* variant: the wait ends with the first settled promise
SomeSettled(p, units) == \E u \in units : p[u] # "pending"

\* every promise of workerPromises is settled: Promise.allSettled resolves
AllSettled(p, units) == \A u \in units : p[u] # "pending"

\* variant: once the flag is false, data messages are dropped
OnDataUnlessFailed(u) ==
    /\ u \in launched
    /\ handled[u] < Len(posted[u])
    /\ NextMsg(u).type = "data"
    /\ handled' = [handled EXCEPT ![u] = @ + 1]
    /\ inflight' = IF overallSuccess
                   THEN inflight \cup {[unit |-> u, item |-> NextMsg(u).item,
                                        n |-> NextMsg(u).n]}
                   ELSE inflight
    /\ UNCHANGED <<options, cookiesFile, pipeline, parsed, fileBytes, writes, companiesFile, companiesData, companyChunks, mpc,
                   overallSuccess, result, launched, promise, outputFile,
                   appendFailed, evError, evExit, site, faultsLeft>>
    /\ UNCHANGED unitVars

\* worker.on('message'), case 'data': the append is started and awaited by
\* the handler alone, nothing else waits for it
OnData(u) ==
    /\ u \in launched
    /\ handled[u] < Len(posted[u])
    /\ NextMsg(u).type = "data"
    /\ handled' = [handled EXCEPT ![u] = @ + 1]
    /\ inflight' = inflight \cup {[unit |-> u, item |-> NextMsg(u).item, n |-> NextMsg(u).n]}
    /\ UNCHANGED <<options, cookiesFile, pipeline, parsed, fileBytes, writes, companiesFile, companiesData, companyChunks, mpc,
                   overallSuccess, result, launched, promise, outputFile,
                   appendFailed, evError, evExit, site, faultsLeft>>
    /\ UNCHANGED unitVars

\* variant: the batch is written over the file instead of appended to it
AppendOkOverwrites(b) ==
    /\ b \in inflight
    /\ inflight' = inflight \ {b}
    /\ outputFile' = LinesBag(b)
    /\ UNCHANGED <<options, cookiesFile, pipeline, parsed, fileBytes, writes, companiesFile, companiesData, companyChunks, mpc,
                   overallSuccess, result, launched, promise, appendFailed,
                   handled, evError, evExit, site, faultsLeft>>
    /\ UNCHANGED unitVars

\* fs.promises.appendFile fulfils: the lines of the batch are in the file
AppendOk(b) ==
    /\ b \in inflight
    /\ inflight' = inflight \ {b}
    /\ outputFile' = outputFile (+) LinesBag(b)
    /\ UNCHANGED <<options, cookiesFile, pipeline, parsed, fileBytes, writes, companiesFile, companiesData, companyChunks, mpc,
                   overallSuccess, result, launched, promise, appendFailed,
                   handled, evError, evExit, site, faultsLeft>>
    /\ UNCHANGED unitVars

\* variant: a rejected append is started again
AppendFailRetries(b) ==
    /\ b \in inflight
    /\ appendFailed' = appendFailed \cup {b}
    /\ overallSuccess' = FALSE
    /\ Fault
    /\ UNCHANGED <<options, cookiesFile, pipeline, parsed, fileBytes, writes, companiesFile, companiesData,
                   companyChunks, mpc, result, launched, promise, outputFile,
                   inflight, handled, evError, evExit, site>>
    /\ UNCHANGED unitVars

\* fs.promises.appendFile rejects: the catch block flips the flag
AppendFail(b) ==
    /\ b \in inflight
    /\ inflight' = inflight \ {b}
    /\ appendFailed' = appendFailed \cup {b}
    /\ overallSuccess' = FALSE
    /\ Fault
    /\ UNCHANGED <<options, cookiesFile, pipeline, parsed, fileBytes, writes, companiesFile, companiesData, companyChunks, mpc,
                   result, launched, promise, outputFile, handled, evError,
                   evExit, site>>
    /\ UNCHANGED unitVars

\* variant: an error message is logged and the flag is left alone
OnErrorMsgKeepsFlag(u) ==
    /\ u \in launched
    /\ handled[u] < Len(posted[u])
    /\ NextMsg(u).type = "error"
    /\ handled' = [handled EXCEPT ![u] = @ + 1]
    /\ UNCHANGED <<options, cookiesFile, pipeline, parsed, fileBytes, writes, companiesFile, companiesData,
                   companyChunks, mpc, overallSuccess, result, launched,
                   promise, outputFile, inflight, appendFailed, evError,
                   evExit, site, faultsLeft>>
    /\ UNCHANGED unitVars

\* ---- the data case of the message handler, with the file as text
\* the text of the output file is a sequence of pieces: the two halves of
\* the text of a JSON object, or a newline
NL == [c |-> "nl", item |-> 0, rec |-> 0, part |-> 0]

Tok(x, j, p) == [c |-> "obj", item |-> x, rec |-> j, part |-> p]

\* JSON.stringify(r) for record j of item x: one object, no newline in it
Stringify(x, j) == <<Tok(x, j, 1), Tok(x, j, 2)>>

\* Array.prototype.join
RECURSIVE Join(_, _)
Join(strs, sep) ==
    IF strs = <<>> THEN <<>>
    ELSE IF Len(strs) = 1 THEN strs[1]
    ELSE strs[1] \o sep \o Join(Tail(strs), sep)

\* line 85: message.payload.map(r => JSON.stringify(r)).join('\n') + '\n'
LinesToAppend(x, n) == Join([j \in 1..n |-> Stringify(x, j)], <<NL>>) \o <<NL>>

\* lines 81-86: the handler builds the text and calls appendFile
SinkOnData(u) ==
    /\ u \in launched
    /\ handled[u] < Len(posted[u])
    /\ NextMsg(u).type = "data"
    /\ handled' = [handled EXCEPT ![u] = @ + 1]
    /\ inflight' = inflight \cup {[unit |-> u, item |-> NextMsg(u).item, n |-> NextMsg(u).n]}
    /\ writes' = writes \cup {[unit |-> u, item |-> NextMsg(u).item, n |-> NextMsg(u).n,
                               rest |-> LinesToAppend(NextMsg(u).item, NextMsg(u).n)]}
    /\ UNCHANGED <<options, cookiesFile, pipeline, parsed, fileBytes, companiesFile, companiesData,
                   companyChunks, mpc, overallSuccess, result, launched, promise,
                   outputFile, appendFailed, evError, evExit, site, faultsLeft>>
    /\ UNCHANGED unitVars

\* appendFile writes the next k pieces of its text.  An append that is alone
\* in flight is written as one piece; appends in flight together are a race
\* on the file and their pieces can land in any order.
WritePiece(w, k) ==
    /\ w \in writes
    /\ k \in 1..Len(w.rest)
    /\ k = Len(w.rest) \/ Cardinality(writes) >= 2
    /\ fileBytes' = fileBytes \o SubSeq(w.rest, 1, k)
    /\ IF k = Len(w.rest)
       THEN /\ writes' = writes \ {w}
            /\ inflight' = inflight \ {[unit |-> w.unit, item |-> w.item, n |-> w.n]}
            /\ outputFile' = outputFile (+) LinesBag(w)
       ELSE /\ writes' = (writes \ {w})
                           \cup {[w EXCEPT !.rest = SubSeq(w.rest, k + 1, Len(w.rest))]}
            /\ UNCHANGED <<inflight, outputFile>>
    /\ UNCHANGED <<options, cookiesFile, pipeline, parsed, companiesFile, companiesData,
                   companyChunks, mpc, overallSuccess, result, launched, promise,
                   appendFailed, handled, evError, evExit, site, faultsLeft>>
    /\ UNCHANGED unitVars

\* appendFile rejects before it wrote anything: the catch block flips the flag
SinkAppendFail(w) ==
    /\ w \in writes
    /\ w.rest = LinesToAppend(w.item, w.n)
    /\ Fault
    /\ writes' = writes \ {w}
    /\ inflight' = inflight \ {[unit |-> w.unit, item |-> w.item, n |-> w.n]}
    /\ appendFailed' = appendFailed \cup {[unit |-> w.unit, item |-> w.item, n |-> w.n]}
    /\ overallSuccess' = FALSE
    /\ UNCHANGED <<options, cookiesFile, pipeline, parsed, fileBytes, companiesFile, companiesData,
                   companyChunks, mpc, result, launched, promise, outputFile,
                   handled, evError, evExit, site>>
    /\ UNCHANGED unitVars

\* worker.on('message'), case 'error'
OnErrorMsg(u) ==
    /\ u \in launched
    /\ handled[u] < Len(posted[u])
    /\ NextMsg(u).type = "error"
    /\ handled' = [handled EXCEPT ![u] = @ + 1]
    /\ overallSuccess' = FALSE
    /\ UNCHANGED <<options, cookiesFile, pipeline, parsed, fileBytes, writes, companiesFile, companiesData, companyChunks, mpc,
                   result, launched, promise, outputFile, inflight, appendFailed,
                   evError, evExit, site, faultsLeft>>
    /\ UNCHANGED unitVars

\* worker.on('message'), case 'done'
OnDone(u) ==
    /\ u \in launched
    /\ handled[u] < Len(posted[u])
    /\ NextMsg(u).type = "done"
    /\ handled' = [handled EXCEPT ![u] = @ + 1]
    /\ promise' = [promise EXCEPT ![u] = Settle(@, "fulfilled")]
    /\ UNCHANGED <<options, cookiesFile, pipeline, parsed, fileBytes, writes, companiesFile, companiesData, companyChunks, mpc,
                   overallSuccess, result, launched, outputFile, inflight,
                   appendFailed, evError, evExit, site, faultsLeft>>
    /\ UNCHANGED unitVars

\* worker.on('error'): the worker thread died of an uncaught exception
OnWorkerError(u) ==
    /\ u \in launched
    /\ evError[u] = "pending"
    /\ evError' = [evError EXCEPT ![u] = "handled"]
    /\ overallSuccess' = FALSE
    /\ promise' = [promise EXCEPT ![u] = Settle(@, "rejected")]
    /\ UNCHANGED <<options, cookiesFile, pipeline, parsed, fileBytes, writes, companiesFile, companiesData, companyChunks, mpc,
                   result, launched, outputFile, inflight, appendFailed, handled,
                   evExit, site, faultsLeft>>
    /\ UNCHANGED unitVars

\* worker.on('exit'): emitted last, after the messages the thread posted
\* were delivered and after its 'error' event
OnExit(u) ==
    /\ u \in launched
    /\ evExit[u] \in {"pending0", "pending1"}
    /\ handled[u] = Len(posted[u])
    /\ evError[u] # "pending"
    /\ evExit' = [evExit EXCEPT ![u] = IF @ = "pending0" THEN "handled0" ELSE "handled1"]
    /\ overallSuccess' = IF evExit[u] = "pending1" THEN FALSE ELSE overallSuccess
    /\ promise' = [promise EXCEPT ![u] =
                      Settle(@, IF evExit[u] = "pending1" THEN "rejected" ELSE "fulfilled")]
    /\ UNCHANGED <<options, cookiesFile, pipeline, parsed, fileBytes, writes, companiesFile, companiesData, companyChunks, mpc,
                   result, launched, outputFile, inflight, appendFailed, handled,
                   evError, site, faultsLeft>>
    /\ UNCHANGED unitVars

\* variant: the flag is computed anew from the settled promises
FlagFromResults(flag, p, units) == ~(\E u \in units : p[u] = "rejected")

\* results.forEach: a rejected promise clears the flag
FlagAfterResults(flag, p, units) ==
    IF \E u \in units : p[u] = "rejected" THEN FALSE ELSE flag

\* variant: a promise is awaited for every worker slot, launched or not
ReadyToReturnEverySlot ==
    \A u \in 1..NumberOfWorkers : promise[u] \in {"fulfilled", "rejected"}

ReadyToReturn == AllSettled(promise, launched)

\* await Promise.allSettled(workerPromises), the results loop and the return
Finalize ==
    /\ mpc = "waiting"
    /\ ReadyToReturn
    /\ overallSuccess' = FlagAfterResults(overallSuccess, promise, launched)
    /\ result' = IF overallSuccess' THEN "true" ELSE "false"
    /\ mpc' = "returned"
    /\ UNCHANGED <<options, cookiesFile, pipeline, parsed, fileBytes, writes, companiesFile, companiesData, companyChunks,
                   launched, promise, outputFile, inflight, appendFailed, handled,
                   evError, evExit, site, faultsLeft>>
    /\ UNCHANGED unitVars

\* =================================================================== unit
managerQuiet ==
    UNCHANGED <<options, cookiesFile, pipeline, parsed, fileBytes, writes, companiesFile, companiesData, companyChunks, mpc,
                overallSuccess, result, launched, promise, outputFile, inflight,
                appendFailed, handled, site>>

Chunk(u) == workerData[u].companiesChunk

\* variant: the chunk is walked from its last item to its first
CompanyReversed(u) == Chunk(u)[Len(Chunk(u)) - idx[u]]

\* companiesChunk[i]
Company(u) == Chunk(u)[idx[u] + 1]

\* the retry options runWorker reads from workerData.options
MaxRetriesOf(u) ==
    Get(workerData[u].options, "maxRetriesPerCompany", DefaultMaxRetriesPerCompany)

RetryDelayOf(u) ==
    Get(workerData[u].options, "retryDelayMs", DefaultRetryDelayMs)

\* condition of the company loop: i < companiesChunk.length
LoopHead(u, i) == IF i < Len(Chunk(u)) THEN "attempt" ELSE "finish"

\* variant: the retry loop runs one round more
RetryLoopOneMore(a, maxRetries) == a <= maxRetries + 1

\* condition of the retry loop: attempt <= maxRetriesPerCompany
RetryLoopContinues(a, maxRetries) == a <= maxRetries

\* variant: the catch block gives up one attempt early
ShouldRetryEarly(a, maxRetries) == a + 1 < maxRetries

\* variant: the catch block reports every failed attempt
ShouldRetryNever(a, maxRetries) == FALSE

\* condition of the catch block: attempt < maxRetriesPerCompany
ShouldRetry(a, maxRetries) == a < maxRetries

\* the reason the final error message carries: err of the current attempt
\* (the reason of attempt a is a itself)
FinalReason(a) == a

\* what runWorker does, as recorded in log
Ev(e, x) == [e |-> e, item |-> x]

Log(u, evs) == log' = [log EXCEPT ![u] = @ \o evs]

\* variant: the unit pauses after the last company too
PauseAfterEvery(u, i) == <<Ev("pause", workerData[u].companiesChunk[i + 1])>>

\* lines 171-175: the pause after the company at index i, unless it is the last
PauseAfter(u, i) ==
    IF i < Len(workerData[u].companiesChunk) - 1
    THEN <<Ev("pause", workerData[u].companiesChunk[i + 1])>> ELSE <<>>

\* variant: the catch block leaves the page of the failed attempt open
FailedAttemptKeepsPage(x, f) ==
    IF f = NoPage THEN <<Ev("newPageFailed", x)>>
    ELSE <<Ev("newPage", x)>>
         \o (IF f = Timeout THEN <<Ev("timeout", x)>> ELSE <<>>)

\* lines 129-150: an attempt for item x that throws f, up to the closing
\* of its page in the catch block (there is none to close when newPage threw)
FailedAttemptLog(x, f) ==
    IF f = NoPage THEN <<Ev("newPageFailed", x)>>
    ELSE <<Ev("newPage", x)>>
         \o (IF f = Timeout THEN <<Ev("timeout", x)>> ELSE <<>>)
         \o <<Ev("closePage", x)>>

Post(u, msgs) == posted' = [posted EXCEPT ![u] = @ \o msgs]

Running(u) == upc[u] \in {"start", "attempt", "finish"}

\* lines 98-104 and 112-118: cookies loaded, browser launched, the company
\* loop is entered with i = 0
SessionOk(u) ==
    /\ upc[u] = "start"
    /\ cookiesFile.valid
    /\ idx' = [idx EXCEPT ![u] = 0]
    /\ attempt' = [attempt EXCEPT ![u] = 0]
    /\ upc' = [upc EXCEPT ![u] = LoopHead(u, 0)]
    /\ Log(u, <<Ev("launch", 0)>>)
    /\ UNCHANGED <<workerData, posted, attempts, evError, evExit, faultsLeft>>
    /\ managerQuiet

\* variant: the error is posted but runWorker does not return
LoadCookiesFailNoReturn(u) ==
    /\ upc[u] = "start"
    /\ IF cookiesFile.valid THEN Fault ELSE UNCHANGED faultsLeft
    /\ Post(u, <<ErrorMsg(0, CookieFault)>>)
    /\ idx' = [idx EXCEPT ![u] = 0]
    /\ attempt' = [attempt EXCEPT ![u] = 0]
    /\ upc' = [upc EXCEPT ![u] = LoopHead(u, 0)]
    /\ Log(u, <<Ev("launch", 0)>>)
    /\ UNCHANGED <<workerData, attempts, evError, evExit>>
    /\ managerQuiet

\* variant: done is posted after the error of the cookies
LoadCookiesFailPostsDone(u) ==
    /\ upc[u] = "start"
    /\ IF cookiesFile.valid THEN Fault ELSE UNCHANGED faultsLeft
    /\ Post(u, <<ErrorMsg(0, CookieFault), DoneMsg>>)
    /\ upc' = [upc EXCEPT ![u] = "nosession"]
    /\ evExit' = [evExit EXCEPT ![u] = "pending0"]
    /\ UNCHANGED <<workerData, log, idx, attempt, attempts, evError>>
    /\ managerQuiet

\* lines 105-109: error posted, runWorker returns, the thread ends with code 0
LoadCookiesFail(u) ==
    /\ upc[u] = "start"
    /\ IF cookiesFile.valid THEN Fault ELSE UNCHANGED faultsLeft
    /\ Post(u, <<ErrorMsg(0, CookieFault)>>)
    /\ upc' = [upc EXCEPT ![u] = "nosession"]
    /\ evExit' = [evExit EXCEPT ![u] = "pending0"]
    /\ UNCHANGED <<workerData, log, idx, attempt, attempts, evError>>
    /\ managerQuiet

\* line 114 throws: the outer catch posts the error, finally posts done
LaunchBrowserFail(u) ==
    /\ upc[u] = "start"
    /\ cookiesFile.valid
    /\ Fault
    /\ Post(u, <<ErrorMsg(0, CriticalFault), DoneMsg>>)
    /\ upc' = [upc EXCEPT ![u] = "nosession"]
    /\ evExit' = [evExit EXCEPT ![u] = "pending0"]
    /\ Log(u, <<Ev("launchFailed", 0), Ev("postError", 0), Ev("postDone", 0)>>)
    /\ UNCHANGED <<workerData, idx, attempt, attempts, evError>>
    /\ managerQuiet

\* leaving the retry loop: pause unless last, i++, loop condition
NextCompany(u) ==
    /\ idx' = [idx EXCEPT ![u] = @ + 1]
    /\ attempt' = [attempt EXCEPT ![u] = 0]
    /\ upc' = [upc EXCEPT ![u] = LoopHead(u, idx[u] + 1)]

\* variant: results are posted only for the last item of the chunk
AttemptSuccessPostsAtEnd(u, n) ==
    /\ upc[u] = "attempt"
    /\ Success(n) \in site[Company(u)]
    /\ attempts' = [attempts EXCEPT ![Company(u)] = Append(@, [unit |-> u, ok |-> TRUE, n |-> n])]
    /\ Post(u, IF n > 0 /\ idx[u] + 1 = Len(Chunk(u))
               THEN <<DataMsg(Company(u), n)>> ELSE <<>>)
    /\ NextCompany(u)
    /\ Log(u, <<Ev("newPage", Company(u))>>
               \o (IF n > 0 THEN <<Ev("postData", Company(u))>> ELSE <<>>)
               \o <<Ev("closePage", Company(u))>>
               \o PauseAfter(u, idx[u]))
    /\ UNCHANGED <<workerData, evError, evExit, faultsLeft>>
    /\ managerQuiet

\* variant: the page of a successful attempt is never closed
AttemptSuccessKeepsPage(u, n) ==
    /\ upc[u] = "attempt"
    /\ Success(n) \in site[Company(u)]
    /\ attempts' = [attempts EXCEPT ![Company(u)] = Append(@, [unit |-> u, ok |-> TRUE, n |-> n])]
    /\ Post(u, IF n > 0 THEN <<DataMsg(Company(u), n)>> ELSE <<>>)
    /\ NextCompany(u)
    /\ Log(u, <<Ev("newPage", Company(u))>>
               \o (IF n > 0 THEN <<Ev("postData", Company(u))>> ELSE <<>>)
               \o PauseAfter(u, idx[u]))
    /\ UNCHANGED <<workerData, evError, evExit, faultsLeft>>
    /\ managerQuiet

\* lines 129-145: the attempt succeeds with n rounds
AttemptSuccess(u, n) ==
    /\ upc[u] = "attempt"
    /\ Success(n) \in site[Company(u)]
    /\ attempts' = [attempts EXCEPT ![Company(u)] = Append(@, [unit |-> u, ok |-> TRUE, n |-> n])]
    /\ Post(u, IF n > 0 THEN <<DataMsg(Company(u), n)>> ELSE <<>>)
    /\ NextCompany(u)
    /\ Log(u, <<Ev("newPage", Company(u))>>
               \o (IF n > 0 THEN <<Ev("postData", Company(u))>> ELSE <<>>)
               \o <<Ev("closePage", Company(u))>>
               \o PauseAfter(u, idx[u]))
    /\ UNCHANGED <<workerData, evError, evExit, faultsLeft>>
    /\ managerQuiet

\* variant: the last failed attempt ends the company loop
AttemptFailAbortsChunk(u) ==
    /\ upc[u] = "attempt"
    /\ attempts' = [attempts EXCEPT ![Company(u)] = Append(@, [unit |-> u, ok |-> FALSE, n |-> 0])]
    /\ Post(u, IF ShouldRetry(attempt[u], MaxRetriesOf(u))
               THEN <<>>
               ELSE <<ErrorMsg(Company(u), FinalReason(attempt[u]))>>)
    /\ IF RetryLoopContinues(attempt[u] + 1, MaxRetriesOf(u))
       THEN /\ attempt' = [attempt EXCEPT ![u] = @ + 1]
            /\ UNCHANGED <<idx, upc>>
       ELSE /\ upc' = [upc EXCEPT ![u] = "finish"]
            /\ UNCHANGED <<idx, attempt>>
    /\ \E f \in Failures \cap site[Company(u)] :
       Log(u, FailedAttemptLog(Company(u), f)
               \o (IF ShouldRetry(attempt[u], MaxRetriesOf(u))
                   THEN <<Ev("delay", Company(u))>>
                   ELSE <<Ev("postError", Company(u))>>)
               \o (IF RetryLoopContinues(attempt[u] + 1, MaxRetriesOf(u))
                   THEN <<>> ELSE PauseAfter(u, idx[u])))
    /\ UNCHANGED <<workerData, evError, evExit, faultsLeft>>
    /\ managerQuiet

\* variant: a timeout is not caught by the retry loop and ends the thread
AttemptFailTimeoutUncaught(u) ==
    /\ upc[u] = "attempt"
    /\ attempts' = [attempts EXCEPT ![Company(u)] = Append(@, [unit |-> u, ok |-> FALSE, n |-> 0])]
    /\ \E f \in Failures \cap site[Company(u)] :
          IF f = Timeout
          THEN /\ Log(u, <<Ev("newPage", Company(u)), Ev("timeout", Company(u))>>)
               /\ upc' = [upc EXCEPT ![u] = "crashed"]
               /\ evError' = [evError EXCEPT ![u] = "pending"]
               /\ evExit' = [evExit EXCEPT ![u] = "pending1"]
               /\ UNCHANGED <<idx, attempt, posted>>
          ELSE /\ Post(u, IF ShouldRetry(attempt[u], MaxRetriesOf(u))
                          THEN <<>>
                          ELSE <<ErrorMsg(Company(u), FinalReason(attempt[u]))>>)
               /\ IF RetryLoopContinues(attempt[u] + 1, MaxRetriesOf(u))
                  THEN /\ attempt' = [attempt EXCEPT ![u] = @ + 1]
                       /\ UNCHANGED <<idx, upc>>
                  ELSE NextCompany(u)
               /\ Log(u, FailedAttemptLog(Company(u), f)
                         \o (IF ShouldRetry(attempt[u], MaxRetriesOf(u))
                             THEN <<Ev("delay", Company(u))>>
                             ELSE <<Ev("postError", Company(u))>>)
                         \o (IF RetryLoopContinues(attempt[u] + 1, MaxRetriesOf(u))
                             THEN <<>> ELSE PauseAfter(u, idx[u])))
               /\ UNCHANGED <<evError, evExit>>
    /\ UNCHANGED <<workerData, faultsLeft>>
    /\ managerQuiet

\* lines 147-162: the attempt throws
AttemptFail(u) ==
    /\ upc[u] = "attempt"
    /\ attempts' = [attempts EXCEPT ![Company(u)] = Append(@, [unit |-> u, ok |-> FALSE, n |-> 0])]
    /\ Post(u, IF ShouldRetry(attempt[u], MaxRetriesOf(u))
               THEN <<>>
               ELSE <<ErrorMsg(Company(u), FinalReason(attempt[u]))>>)
    /\ IF RetryLoopContinues(attempt[u] + 1, MaxRetriesOf(u))
       THEN /\ attempt' = [attempt EXCEPT ![u] = @ + 1]
            /\ UNCHANGED <<idx, upc>>
       ELSE NextCompany(u)
    /\ \E f \in Failures \cap site[Company(u)] :
       Log(u, FailedAttemptLog(Company(u), f)
               \o (IF ShouldRetry(attempt[u], MaxRetriesOf(u))
                   THEN <<Ev("delay", Company(u))>>
                   ELSE <<Ev("postError", Company(u))>>)
               \o (IF RetryLoopContinues(attempt[u] + 1, MaxRetriesOf(u))
                   THEN <<>> ELSE PauseAfter(u, idx[u])))
    /\ UNCHANGED <<workerData, evError, evExit, faultsLeft>>
    /\ managerQuiet

\* lines 119-121: the entry of the list is null, reading its fields throws
\* outside the retry loop; the outer catch posts the error (lines 180-182)
\* and the finally block is entered
CompanyInfoThrows(u) ==
    /\ upc[u] = "attempt"
    /\ attempts[Company(u)] = <<>>
    /\ Fault
    /\ Post(u, <<ErrorMsg(0, CriticalFault)>>)
    /\ upc' = [upc EXCEPT ![u] = "finish"]
    /\ Log(u, <<Ev("threw", Company(u)), Ev("postError", 0)>>)
    /\ UNCHANGED <<workerData, idx, attempt, attempts, evError, evExit>>
    /\ managerQuiet

\* variant: done is posted and the browser is left open
FinishLeavesBrowser(u) ==
    /\ upc[u] = "finish"
    /\ Post(u, <<DoneMsg>>)
    /\ upc' = [upc EXCEPT ![u] = "returned"]
    /\ evExit' = [evExit EXCEPT ![u] = "pending0"]
    /\ Log(u, <<Ev("postDone", 0)>>)
    /\ UNCHANGED <<workerData, idx, attempt, attempts, evError, faultsLeft>>
    /\ managerQuiet

\* lines 178-190: browser closed, done posted, the thread ends with code 0
Finish(u) ==
    /\ upc[u] = "finish"
    /\ Post(u, <<DoneMsg>>)
    /\ upc' = [upc EXCEPT ![u] = "returned"]
    /\ evExit' = [evExit EXCEPT ![u] = "pending0"]
    /\ Log(u, <<Ev("closeBrowser", 0), Ev("postDone", 0)>>)
    /\ UNCHANGED <<workerData, idx, attempt, attempts, evError, faultsLeft>>
    /\ managerQuiet

\* lines 184-187 and 194: browser.close() throws in the finally block, done
\* is not posted and the promise of runWorker(), which nobody catches, is
\* rejected.  Node 15 and later turn the unhandled rejection into an uncaught
\* exception of the thread ('error', 'exit' with code 1); earlier versions
\* print a warning and the thread ends with code 0.
CloseBrowserFail(u) ==
    /\ upc[u] = "finish"
    /\ Fault
    /\ \E out \in {"crashed", "unclosed"} :
          /\ upc' = [upc EXCEPT ![u] = out]
          /\ evError' = [evError EXCEPT ![u] = IF out = "crashed" THEN "pending" ELSE @]
          /\ evExit' = [evExit EXCEPT ![u] = IF out = "crashed" THEN "pending1" ELSE "pending0"]
    /\ UNCHANGED <<workerData, log, idx, attempt, posted, attempts>>
    /\ managerQuiet

\* the thread dies of an uncaught exception: 'error', then 'exit' with code 1
CrashUnit(u) ==
    /\ Running(u)
    /\ Fault
    /\ upc' = [upc EXCEPT ![u] = "crashed"]
    /\ evError' = [evError EXCEPT ![u] = "pending"]
    /\ evExit' = [evExit EXCEPT ![u] = "pending1"]
    /\ UNCHANGED <<workerData, log, idx, attempt, posted, attempts>>
    /\ managerQuiet

\* the thread is ended with a nonzero code and no 'error' event
ExitNonzero(u) ==
    /\ Running(u)
    /\ Fault
    /\ upc' = [upc EXCEPT ![u] = "killed"]
    /\ evExit' = [evExit EXCEPT ![u] = "pending1"]
    /\ UNCHANGED <<workerData, log, idx, attempt, posted, attempts, evError>>
    /\ managerQuiet

\* ========================================================= specifications
NoEvent == [u \in Units |-> "none"]

\* option objects a caller passes; the last one leaves every default in force
OptionsSet ==
    [numberOfWorkers : 1..MaxWorkers, maxRetriesPerCompany : {MaxRetries},
     retryDelayMs : {1000}, scraperPauseMs : {500}, pageTimeoutMs : {30000}]
    \cup {[scraperPauseMs |-> 500]}

CompaniesFiles ==
    {[valid |-> FALSE, items |-> <<>>]}
    \cup {[valid |-> TRUE, items |-> Iota(m)] : m \in 0..MaxItems}

InitManager ==
    /\ parsed = [done |-> FALSE, objs |-> <<>>]
    /\ writes = {}
    /\ companiesData = <<>>
    /\ companyChunks = <<>>
    /\ mpc = "start"
    /\ overallSuccess = TRUE
    /\ result = "none"
    /\ launched = {}
    /\ promise = [u \in Units |-> "none"]
    /\ inflight = {}
    /\ appendFailed = {}
    /\ handled = NoUnit
    /\ evError = NoEvent
    /\ evExit = NoEvent

InitUnits ==
    /\ log = [u \in Units |-> <<>>]
    /\ workerData = <<>>
    /\ upc = [u \in Units |-> "idle"]
    /\ idx = NoUnit
    /\ attempt = NoUnit
    /\ posted = [u \in Units |-> <<>>]
    /\ attempts = [x \in Range(companiesFile.items) |-> <<>>]

Init ==
    /\ options \in OptionsSet
    /\ cookiesFile \in [valid : BOOLEAN]
    /\ pipeline = NoPipeline
    /\ companiesFile \in CompaniesFiles
    /\ outputFile = SetToBag({StaleLine})
    /\ site = [x \in Range(companiesFile.items) |-> RunOutcomes]
    /\ faultsLeft = MaxFaults
    /\ fileBytes = <<>>
    /\ InitManager
    /\ InitUnits

ManagerNext ==
    \/ LoadCompaniesOk \/ LoadCompaniesFail
    \/ InitOutputOk \/ InitOutputFail
    \/ SplitCompanies
    \/ LaunchWorkers
    \/ \E u \in Units : OnData(u) \/ OnErrorMsg(u) \/ OnDone(u)
    \/ \E u \in Units : OnWorkerError(u) \/ OnExit(u)
    \/ \E b \in inflight : AppendOk(b)
    \/ \E b \in inflight : AppendFail(b)
    \/ Finalize

UnitNext ==
    \E u \in Units :
        \/ SessionOk(u) \/ LoadCookiesFail(u) \/ LaunchBrowserFail(u)
        \/ \E n \in RoundCounts : AttemptSuccess(u, n)
        \/ AttemptFail(u)
        \/ Finish(u)
        \/ CloseBrowserFail(u)
        \/ CrashUnit(u) \/ ExitNonzero(u)

Next == ManagerNext \/ UnitNext

Spec == Init /\ [][Next]_vars

\* ------------------------------------------------------------------------
\* ChunkSpec: the partitioning alone, over a wider range of list lengths and
\* worker counts.
InitChunk ==
    /\ cookiesFile = [valid |-> TRUE]
    /\ pipeline = NoPipeline
    /\ options \in [numberOfWorkers : 1..MaxChunkWorkers]
    /\ companiesFile \in {[valid |-> TRUE, items |-> Iota(m)] : m \in 0..MaxChunkItems}
    /\ outputFile = SetToBag({StaleLine})
    /\ site = [x \in Range(companiesFile.items) |-> Outcomes]
    /\ faultsLeft = 0
    /\ fileBytes = <<>>
    /\ InitManager
    /\ InitUnits

NextChunk == LoadCompaniesOk \/ InitOutputOk \/ SplitCompanies

ChunkSpec == InitChunk /\ [][NextChunk]_vars

\* ---- a run of two items whose output file is followed as text: every
\* ---- scrape succeeds with one or two records
MaxSinkItems == 2

InitSink ==
    /\ options \in [numberOfWorkers : 1..MaxWorkers]
    /\ cookiesFile = [valid |-> TRUE]
    /\ pipeline = NoPipeline
    /\ companiesFile = [valid |-> TRUE, items |-> Iota(MaxSinkItems)]
    /\ outputFile = SetToBag({StaleLine})
    /\ site = [x \in Range(companiesFile.items) |-> {Success(1), Success(2)}]
    /\ faultsLeft = MaxFaults
    /\ fileBytes = <<>>
    /\ InitManager
    /\ InitUnits

NextSink ==
    \/ LoadCompaniesOk \/ InitOutputOk \/ SplitCompanies \/ LaunchWorkers
    \/ \E u \in Units : SinkOnData(u) \/ OnDone(u) \/ OnWorkerError(u) \/ OnExit(u)
    \/ \E w \in writes : \E k \in 1..Len(w.rest) : WritePiece(w, k)
    \/ \E w \in writes : SinkAppendFail(w)
    \/ Finalize
    \/ \E u \in Units :
          \/ SessionOk(u)
          \/ \E n \in RoundCounts : AttemptSuccess(u, n)
          \/ Finish(u)
          \/ CrashUnit(u)

SinkSpec == InitSink /\ [][NextSink]_vars

\* ---- parseJsonl, the reader of the output file
MaxTextLen == 5

\* more pieces of text: a blank, and the text null
SP == [c |-> "sp", item |-> 0, rec |-> 0, part |-> 0]

NullText == [c |-> "null", item |-> 0, rec |-> 0, part |-> 0]

IsSpace(ch) == ch \in {SP, NL}

\* String.prototype.trim
RECURSIVE TrimLeft(_)
TrimLeft(text) ==
    IF text # <<>> /\ IsSpace(Head(text)) THEN TrimLeft(Tail(text)) ELSE text

RECURSIVE TrimRight(_)
TrimRight(text) ==
    IF text # <<>> /\ IsSpace(text[Len(text)])
    THEN TrimRight(SubSeq(text, 1, Len(text) - 1)) ELSE text

Trim(text) == TrimRight(TrimLeft(text))

\* String.prototype.split('\n'): the stretches between the newlines
RECURSIVE SplitLines(_, _)
SplitLines(text, cur) ==
    IF text = <<>> THEN <<cur>>
    ELSE IF Head(text) = NL
         THEN <<cur>> \o SplitLines(Tail(text), <<>>)
         ELSE SplitLines(Tail(text), Append(cur, Head(text)))

\* values of JSON.parse
NullValue == [v |-> "null", item |-> 0, rec |-> 0]

ObjectValue(x, j) == [v |-> "object", item |-> x, rec |-> j]

\* variant: a line holding the first half of an object is read as the object
JsonParseOrNullLenient(line) ==
    LET t == Trim(line)
    IN  IF Len(t) >= 1 /\ t[1].c = "obj" /\ t[1].part = 1
        THEN ObjectValue(t[1].item, t[1].rec)
        ELSE NullValue

\* lines 19-24: JSON.parse(line), which allows blanks around the value, and
\* null when it throws
JsonParseOrNull(line) ==
    LET t == Trim(line)
    IN  IF Len(t) = 2 /\ t[1].c = "obj" /\ t = Stringify(t[1].item, t[1].rec)
        THEN ObjectValue(t[1].item, t[1].rec)
        ELSE NullValue

\* lines 10-27
ParseJsonl(fileContent) ==
    IF fileContent = <<>> THEN <<>>
    ELSE LET NotBlank(line) == Trim(line) # <<>>
             NotNull(obj) == obj # NullValue
             lines == SelectSeq(SplitLines(Trim(fileContent), <<>>), NotBlank)
             objs == [k \in DOMAIN lines |-> JsonParseOrNull(lines[k])]
         IN  SelectSeq(objs, NotNull)

\* runMerging and runPivoting read the file and parse it
ReadBack ==
    /\ ~parsed.done
    /\ parsed' = [done |-> TRUE, objs |-> ParseJsonl(fileBytes)]
    /\ UNCHANGED <<options, cookiesFile, pipeline, fileBytes, writes, companiesFile,
                   companiesData, companyChunks, mpc, overallSuccess, result,
                   launched, promise, outputFile, inflight, appendFailed, handled,
                   evError, evExit, site, faultsLeft>>
    /\ UNCHANGED unitVars

TextAlphabet == {NL, SP, NullText} \cup {Tok(x, 1, p) : x \in 1..2, p \in 1..2}

InitParse ==
    /\ options = [numberOfWorkers |-> 1]
    /\ cookiesFile = [valid |-> TRUE]
    /\ pipeline = NoPipeline
    /\ companiesFile = [valid |-> TRUE, items |-> <<>>]
    /\ outputFile = EmptyBag
    /\ site = <<>>
    /\ faultsLeft = 0
    /\ \E n \in 0..MaxTextLen : fileBytes \in [1..n -> TextAlphabet]
    /\ InitManager
    /\ InitUnits

ParseSpec == InitParse /\ [][ReadBack]_vars

\* ---- scrapeFinancialDetails called with a worker count below 1
InitBadWorkers ==
    /\ cookiesFile = [valid |-> TRUE]
    /\ pipeline = NoPipeline
    /\ options \in [numberOfWorkers : (0 - MaxWorkers)..0]
    /\ companiesFile \in {[valid |-> TRUE, items |-> Iota(m)] : m \in 0..MaxChunkItems}
    /\ outputFile = SetToBag({StaleLine})
    /\ site = [x \in Range(companiesFile.items) |-> Outcomes]
    /\ faultsLeft = 0
    /\ fileBytes = <<>>
    /\ InitManager
    /\ InitUnits

NextBadWorkers ==
    \/ LoadCompaniesOk
    \/ InitOutputOk
    \/ SplitCompanies
    \/ SplitDiverges
    \/ LaunchWorkers
    \/ Finalize

BadWorkersSpec == InitBadWorkers /\ [][NextBadWorkers]_vars

\* ------------------------------------------------------------------------
\* WorkerSpec: one worker thread running financial_scraper_worker.js on a
\* workerData of its own, retry options included or left to their defaults.
WorkerOptionsSet ==
    [scraperPauseMs : {500}, pageTimeoutMs : {30000},
     maxRetriesPerCompany : 0..MaxRetries, retryDelayMs : {1000}]
    \cup {[scraperPauseMs |-> 500, pageTimeoutMs |-> 30000]}

InitWorker ==
    /\ parsed = [done |-> FALSE, objs |-> <<>>]
    /\ fileBytes = <<>>
    /\ writes = {}
    /\ log = [u \in Units |-> <<>>]
    /\ cookiesFile = [valid |-> TRUE]
    /\ pipeline = NoPipeline
    /\ options = [scraperPauseMs |-> 500]
    /\ companiesFile \in {[valid |-> TRUE, items |-> Iota(m)] : m \in 1..MaxWorkerChunk}
    /\ companiesData = companiesFile.items
    /\ companyChunks = <<companiesData>>
    /\ outputFile = EmptyBag
    /\ site = [x \in Range(companiesFile.items) |-> Outcomes]
    /\ faultsLeft = MaxFaults
    /\ mpc = "waiting"
    /\ overallSuccess = TRUE
    /\ result = "none"
    /\ launched = {1}
    /\ promise = [u \in Units |-> IF u = 1 THEN "pending" ELSE "none"]
    /\ inflight = {}
    /\ appendFailed = {}
    /\ handled = NoUnit
    /\ evError = NoEvent
    /\ evExit = NoEvent
    /\ \E o \in WorkerOptionsSet :
          workerData = [u \in {1} |->
              [workerId |-> 1, companiesChunk |-> companiesData, options |-> o]]
    /\ upc = [u \in Units |-> IF u = 1 THEN "start" ELSE "idle"]
    /\ idx = NoUnit
    /\ attempt = NoUnit
    /\ posted = [u \in Units |-> <<>>]
    /\ attempts = [x \in Range(companiesFile.items) |-> <<>>]

WorkerSpec == InitWorker /\ [][UnitNext]_vars

\* ------------------------------------------------------------------------
\* RetrySpec: one worker thread whose attempts can also time out or fail to
\* open their page; every item has one way of failing, and can succeed.  An
\* entry of its list may be null, and closing the browser may fail.
SiteOf(f) == {f, Success(1)}

InitRetry ==
    /\ parsed = [done |-> FALSE, objs |-> <<>>]
    /\ fileBytes = <<>>
    /\ writes = {}
    /\ log = [u \in Units |-> <<>>]
    /\ cookiesFile = [valid |-> TRUE]
    /\ pipeline = NoPipeline
    /\ options = [scraperPauseMs |-> 500]
    /\ companiesFile \in {[valid |-> TRUE, items |-> Iota(m)] : m \in 1..MaxRetryItems}
    /\ companiesData = companiesFile.items
    /\ companyChunks = <<companiesData>>
    /\ outputFile = EmptyBag
    /\ site \in [Range(companiesFile.items) -> {SiteOf(f) : f \in Failures}]
    /\ faultsLeft = MaxFaults
    /\ mpc = "waiting"
    /\ overallSuccess = TRUE
    /\ result = "none"
    /\ launched = {1}
    /\ promise = [u \in Units |-> IF u = 1 THEN "pending" ELSE "none"]
    /\ inflight = {}
    /\ appendFailed = {}
    /\ handled = NoUnit
    /\ evError = NoEvent
    /\ evExit = NoEvent
    /\ \E o \in WorkerOptionsSet :
          workerData = [u \in {1} |->
              [workerId |-> 1, companiesChunk |-> companiesData, options |-> o]]
    /\ upc = [u \in Units |-> IF u = 1 THEN "start" ELSE "idle"]
    /\ idx = NoUnit
    /\ attempt = NoUnit
    /\ posted = [u \in Units |-> <<>>]
    /\ attempts = [x \in Range(companiesFile.items) |-> <<>>]

NextRetry ==
    \E u \in Units :
        \/ SessionOk(u)
        \/ AttemptSuccess(u, 1)
        \/ AttemptFail(u)
        \/ CompanyInfoThrows(u)
        \/ Finish(u)
        \/ CloseBrowserFail(u)

RetrySpec == InitRetry /\ [][NextRetry]_vars

\* ------------------------------------------------------------------------
\* LiveSpec: whole runs on short lists, some with more worker slots than
\* chunks.  The event loop of the manager runs every handler whose event has
\* arrived and every file operation completes, so a manager step that stays
\* possible is taken; nothing is assumed about the progress of the units.
InitLive ==
    /\ options \in [numberOfWorkers : 1..MaxLiveWorkers]
    /\ cookiesFile \in [valid : BOOLEAN]
    /\ pipeline = NoPipeline
    /\ companiesFile \in {[valid |-> FALSE, items |-> <<>>]}
                         \cup {[valid |-> TRUE, items |-> Iota(m)] : m \in 0..MaxLiveItems}
    /\ outputFile = SetToBag({StaleLine})
    /\ site = [x \in Range(companiesFile.items) |-> {Failure, Success(2)}]
    /\ faultsLeft = MaxFaults
    /\ fileBytes = <<>>
    /\ InitManager
    /\ InitUnits

LiveSpec == InitLive /\ [][Next]_vars /\ WF_vars(ManagerNext)

\* ------------------------------------------------------------------------
\* PipelineSpec: runPipeline of run_pipeline.js, over every configuration of
\* its steps.  A module is what it returns to runPipeline (true, or false or
\* an exception); a file is there or not when runPipeline looks for it.
StepFlags ==
    {"runCompaniesScraper", "runPostprocessingCompanies", "scrapeFinancialDetails",
     "runMergingLong", "runPivotingWide", "runCsvConversionLong",
     "runCsvConversionWide"}

OutputFormats == {"generateLongFormat", "generateWideFormat"}

\* the status object of lines 77-86
InitialStatus ==
    [companiesScraped |-> FALSE, financialsScraped |-> FALSE,
     companiesProcessed |-> FALSE, mergedLong |-> FALSE, pivotedWide |-> FALSE,
     csvLongGenerated |-> FALSE, csvWideGenerated |-> FALSE,
     overallSuccess |-> TRUE]

\* lines 274-279: an exception of a step ends the try block
Throw(p) == [p EXCEPT !.pc = "cleanup", !.status.overallSuccess = FALSE]

\* the module of a step was called and returned ok
Ran(p, step, ok) == [p EXCEPT !.ran = Append(@, [step |-> step, ok |-> ok])]

\* variant: a module that returns false does not end the try block
StepOutcomesNoThrow(p, enabled, depsOk, step, key, next, fallback) ==
    LET go == [p EXCEPT !.pc = next] IN
    IF enabled
    THEN IF ~depsOk THEN {go}
         ELSE {Throw(p),
               [Ran(go, step, TRUE) EXCEPT !.status[key] = TRUE],
               Ran(go, step, FALSE)}
    ELSE IF fallback THEN {go, [go EXCEPT !.status[key] = TRUE]} ELSE {go}

\* one step block of the try block: skipped when a step it depends on did
\* not complete; otherwise a required input file is missing (exception), or
\* the module returns true (status set), or it fails (exception).  A
\* disabled step counts as complete when its output file is there.
StepOutcomes(p, enabled, depsOk, step, key, next, fallback) ==
    LET go == [p EXCEPT !.pc = next] IN
    IF enabled
    THEN IF ~depsOk THEN {go}
         ELSE {Throw(p),
               [Ran(go, step, TRUE) EXCEPT !.status[key] = TRUE],
               Throw(Ran(p, step, FALSE))}
    ELSE IF fallback THEN {go, [go EXCEPT !.status[key] = TRUE]} ELSE {go}

scraperQuiet ==
    UNCHANGED <<options, cookiesFile, parsed, fileBytes, writes, companiesFile,
                companiesData, companyChunks, mpc, overallSuccess, result,
                launched, promise, outputFile, inflight, appendFailed, handled,
                evError, evExit, workerData, upc, idx, attempt, posted,
                attempts, site, faultsLeft, log>>

PipelineStep(pc, flag, depsOk, key, next, fallback) ==
    /\ pipeline.pc = pc
    /\ pipeline' \in StepOutcomes(pipeline, flag, depsOk, pc, key, next, fallback)
    /\ scraperQuiet

\* lines 96-113
RunCompaniesScraper ==
    PipelineStep("companiesScraper",
                 "runCompaniesScraper" \in pipeline.config.stepsToRun,
                 TRUE, "companiesScraped", "postprocessCompanies", TRUE)

\* lines 115-141
RunPostprocessingCompanies ==
    PipelineStep("postprocessCompanies",
                 "runPostprocessingCompanies" \in pipeline.config.stepsToRun,
                 pipeline.status.companiesScraped,
                 "companiesProcessed", "scrapeFinancialDetails", TRUE)

\* lines 143-170
RunScrapeFinancialDetails ==
    PipelineStep("scrapeFinancialDetails",
                 "scrapeFinancialDetails" \in pipeline.config.stepsToRun,
                 pipeline.status.companiesProcessed,
                 "financialsScraped", "mergeLong", TRUE)

\* lines 172-199
RunMergingLong ==
    PipelineStep("mergeLong",
                 "runMergingLong" \in pipeline.config.stepsToRun,
                 pipeline.status.companiesProcessed /\ pipeline.status.financialsScraped,
                 "mergedLong", "pivotWide", TRUE)

\* lines 201-228
RunPivotingWide ==
    PipelineStep("pivotWide",
                 "runPivotingWide" \in pipeline.config.stepsToRun,
                 pipeline.status.companiesProcessed /\ pipeline.status.financialsScraped,
                 "pivotedWide", "csvLong", TRUE)

\* lines 230-250
RunCsvConversionLong ==
    PipelineStep("csvLong",
                 /\ "runCsvConversionLong" \in pipeline.config.stepsToRun
                 /\ "generateLongFormat" \in pipeline.config.outputFormats,
                 pipeline.status.mergedLong,
                 "csvLongGenerated", "csvWide", FALSE)

\* lines 252-272
RunCsvConversionWide ==
    PipelineStep("csvWide",
                 /\ "runCsvConversionWide" \in pipeline.config.stepsToRun
                 /\ "generateWideFormat" \in pipeline.config.outputFormats,
                 pipeline.status.pivotedWide,
                 "csvWideGenerated", "cleanup", FALSE)

\* lines 284-289: the intermediate files the cleanup deletes
FilesToDelete(status) ==
    {f \in {"processedCompaniesOutput", "scrapedFinancialsOutput",
            "mergedLongOutput", "mergedWideOutput"} :
        \/ f = "processedCompaniesOutput" /\ status.companiesProcessed
        \/ f = "scrapedFinancialsOutput" /\ status.financialsScraped
        \/ f = "mergedLongOutput" /\ status.mergedLong
        \/ f = "mergedWideOutput" /\ status.pivotedWide}

\* lines 281-310: cleanup and final status
CleanupAndExit ==
    /\ pipeline.pc = "cleanup"
    /\ pipeline' =
          [pipeline EXCEPT
              !.pc = "done",
              !.deleted = IF pipeline.status.overallSuccess
                             /\ pipeline.config.cleanupIntermediateFiles
                          THEN FilesToDelete(pipeline.status) ELSE {},
              !.exitCode = IF pipeline.status.overallSuccess THEN 0 ELSE 1]
    /\ scraperQuiet

InitPipeline ==
    /\ options = [scraperPauseMs |-> 500]
    /\ cookiesFile = [valid |-> TRUE]
    /\ \E steps \in SUBSET StepFlags, formats \in SUBSET OutputFormats,
          cleanup \in BOOLEAN :
          pipeline = [pc |-> "companiesScraper",
                      config |-> [stepsToRun |-> steps, outputFormats |-> formats,
                                  cleanupIntermediateFiles |-> cleanup],
                      status |-> InitialStatus,
                      ran |-> <<>>, deleted |-> {}, exitCode |-> 0]
    /\ companiesFile = [valid |-> TRUE, items |-> <<>>]
    /\ outputFile = EmptyBag
    /\ site = <<>>
    /\ faultsLeft = 0
    /\ fileBytes = <<>>
    /\ InitManager
    /\ InitUnits

NextPipeline ==
    \/ RunCompaniesScraper
    \/ RunPostprocessingCompanies
    \/ RunScrapeFinancialDetails
    \/ RunMergingLong
    \/ RunPivotingWide
    \/ RunCsvConversionLong
    \/ RunCsvConversionWide
    \/ CleanupAndExit

PipelineSpec == InitPipeline /\ [][NextPipeline]_vars

\* ------------------------------------------------------------------------
\* ScenarioSpec: the two fault-free runs the specification works through.
\* Ten items on three workers with one retry allowed, item 7 failing every
\* time; two items on five workers.  Every other item yields one record.
Scenarios ==
    {[items |-> 10, failing |-> {7},
      opts |-> [numberOfWorkers |-> 3, maxRetriesPerCompany |-> 1]],
     [items |-> 2, failing |-> {},
      opts |-> [numberOfWorkers |-> 5]]}

InitScenario ==
    /\ cookiesFile = [valid |-> TRUE]
    /\ pipeline = NoPipeline
    /\ \E sc \in Scenarios :
          /\ options = sc.opts
          /\ companiesFile = [valid |-> TRUE, items |-> Iota(sc.items)]
          /\ site = [x \in 1..sc.items |->
                        IF x \in sc.failing THEN {Failure} ELSE {Success(1)}]
    /\ outputFile = SetToBag({StaleLine})
    /\ faultsLeft = 0
    /\ fileBytes = <<>>
    /\ InitManager
    /\ InitUnits

NextScenario ==
    \/ LoadCompaniesOk \/ InitOutputOk \/ SplitCompanies \/ LaunchWorkers
    \/ \E u \in Units : OnData(u) \/ OnErrorMsg(u) \/ OnDone(u) \/ OnExit(u)
    \/ \E b \in inflight : AppendOk(b)
    \/ Finalize
    \/ \E u \in Units :
          \/ SessionOk(u)
          \/ \E n \in RoundCounts : AttemptSuccess(u, n)
          \/ AttemptFail(u)
          \/ Finish(u)

ScenarioSpec == InitScenario /\ [][NextScenario]_vars

\* ================================================================= claims
Items == Range(companiesFile.items)

Returned == mpc = "returned"

Crashed(u) == upc[u] \in {"crashed", "killed"}

ExitedNonzero(u) == evExit[u] \in {"pending1", "handled1"}

\* the manager handled a message of type t
Received(t) ==
    \E u \in launched : \E k \in 1..handled[u] : posted[u][k].type = t

\* positions in posted[u] of the messages of type t about item x
MsgsOf(u, t, x) ==
    {k \in DOMAIN posted[u] : posted[u][k].type = t /\ posted[u][k].item = x}

\* nothing is left to happen: every unit ended, every message and event was
\* handled, every append completed
Quiescent ==
    /\ Returned
    /\ inflight = {}
    /\ \A u \in launched :
          /\ ~Running(u)
          /\ handled[u] = Len(posted[u])
          /\ evError[u] # "pending"
          /\ evExit[u] \notin {"pending0", "pending1"}

\* ------------------------------------------------------------------- C1
NoFaultSeen ==
    /\ \A u \in launched : ~Crashed(u) /\ ~ExitedNonzero(u)
    /\ ~Received("error")
    /\ appendFailed = {}

\* C1: once scrapeFinancialDetails has returned from its wait for the units,
\* the value it returned is true exactly when no unit crashed, none exited
\* with a nonzero code, no error message was received and no append to the
\* output file failed.
C1_TrueIffNoFault ==
    Returned => (result = "true" <=> NoFaultSeen)

\* ------------------------------------------------------------------- C2
\* C2: the chunks partition the item list: concatenated in order they give
\* the list back, and every item lies in exactly one chunk.
C2_ChunksPartition ==
    mpc = "split" =>
        /\ Concat(companyChunks) = companiesData
        /\ \A x \in Range(companiesData) :
              Cardinality({c \in DOMAIN companyChunks :
                              x \in Range(companyChunks[c])}) = 1

C2_Witness ==
    /\ mpc = "split"
    /\ Len(companyChunks) >= 3
    /\ Len(companyChunks[Len(companyChunks)]) < Len(companyChunks[1])
    /\ Len(companyChunks) < NumberOfWorkers

\* ------------------------------------------------------------------- C3
\* s is ceil(m / n): the least integer with s * n >= m
IsCeil(s, m, n) == s * n >= m /\ (s - 1) * n < m

\* C3: for M >= 1 items and N >= 1 workers there are at most N chunks, none
\* is empty, and every chunk but the last has exactly ceil(M/N) items, the
\* last one at most that many.
C3_ChunkSizes ==
    (mpc = "split" /\ Len(companiesData) >= 1) =>
        /\ Len(companyChunks) <= NumberOfWorkers
        /\ \A c \in DOMAIN companyChunks :
              /\ Len(companyChunks[c]) >= 1
              /\ c < Len(companyChunks) =>
                    IsCeil(Len(companyChunks[c]), Len(companiesData), NumberOfWorkers)
              /\ c = Len(companyChunks) =>
                    \E s \in 1..Len(companiesData) :
                        /\ IsCeil(s, Len(companiesData), NumberOfWorkers)
                        /\ Len(companyChunks[c]) <= s

C3_Witness ==
    /\ mpc = "split"
    /\ Len(companiesData) = 10
    /\ NumberOfWorkers = 4
    /\ Len(companyChunks) = 4
    /\ Len(companyChunks[4]) = 1

\* ------------------------------------------------------------------- C4
\* every attempt made so far for item x failed, and there was one
AllAttemptsFailed(x) ==
    /\ attempts[x] # <<>>
    /\ \A k \in DOMAIN attempts[x] : ~attempts[x][k].ok

\* unit u has left the retry loop of the k-th company of its chunk
PastCompany(u, k) == upc[u] # "start" /\ k <= idx[u]

\* C4: in runWorker, an item whose every attempt fails is attempted R+1
\* times, R being the unit's maxRetriesPerCompany, and never more; when the
\* unit leaves the item it has posted exactly one error message for it, and
\* that message carries the reason of the last attempt (attempt R).  It
\* posts no error message for the item before the last attempt.
C4_RetryExhaustion ==
    \A u \in launched : \A k \in DOMAIN Chunk(u) :
        AllAttemptsFailed(Chunk(u)[k]) =>
            LET x == Chunk(u)[k]
                errs == MsgsOf(u, "error", x)
            IN  /\ Len(attempts[x]) <= MaxRetriesOf(u) + 1
                /\ Cardinality(errs) = IF Len(attempts[x]) = MaxRetriesOf(u) + 1
                                       THEN 1 ELSE 0
                /\ \A e \in errs : posted[u][e].reason = Len(attempts[x]) - 1
                /\ PastCompany(u, k) => Len(attempts[x]) = MaxRetriesOf(u) + 1

C4_Witness ==
    \E u \in launched : \E k \in DOMAIN Chunk(u) :
        /\ MaxRetriesOf(u) = 2
        /\ AllAttemptsFailed(Chunk(u)[k])
        /\ PastCompany(u, k)
        /\ Len(attempts[Chunk(u)[k]]) = 3
        /\ \E e \in MsgsOf(u, "error", Chunk(u)[k]) : posted[u][e].reason = 2
        /\ upc[u] = "returned"

\* ------------------------------------------------------------------- C5
\* C5: the retry options a unit works with are the ones passed to
\* scrapeFinancialDetails.
C5_RetryOptionsPassed ==
    \A u \in launched :
        /\ MaxRetriesOf(u)
              = Get(options, "maxRetriesPerCompany", DefaultMaxRetriesPerCompany)
        /\ RetryDelayOf(u) = Get(options, "retryDelayMs", DefaultRetryDelayMs)

\* ------------------------------------------------------------------- C6
\* number of lines of the output file that are records of item x
LinesOf(x) ==
    BagCardinality([l \in {m \in BagToSet(outputFile) : m[1] = x} |-> outputFile[l]])

TenItemRun == Len(companiesFile.items) = 10

\* C6: in the run with 10 items, 3 workers and maxRetries = 1 where item 7
\* always fails, item 7 is attempted twice, its unit posts one error for it,
\* each other item gives one line, the file ends with 9 lines and the run
\* returns failure.
C6_TenItemScenario ==
    (TenItemRun /\ Quiescent) =>
        /\ Len(attempts[7]) = 2
        /\ AllAttemptsFailed(7)
        /\ \E u \in launched :
              /\ 7 \in Range(Chunk(u))
              /\ Cardinality(MsgsOf(u, "error", 7)) = 1
        /\ \A x \in Items \ {7} : LinesOf(x) = 1
        /\ BagCardinality(outputFile) = 9
        /\ result = "false"

\* ------------------------------------------------------------------- C7
CrashedUnits == {u \in launched : Crashed(u)}

\* the batch a data message makes the manager append
BatchOf(u, m) == [unit |-> u, item |-> m.item, n |-> m.n]

\* C7: when a unit crashed or exited with a nonzero code, the manager has
\* returned failure only after every other unit ended by itself, each such
\* unit that ran its loop to the end having attempted every item of its
\* chunk; and once everything has been handled the file holds, once, every
\* record any unit posted, those of a failed append excepted.
C7_CrashIsolation ==
    /\ (Returned /\ CrashedUnits # {}) =>
          /\ result = "false"
          /\ \A u \in launched \ CrashedUnits :
                /\ ~Running(u)
                /\ upc[u] = "returned" =>
                      \A k \in DOMAIN Chunk(u) : attempts[Chunk(u)[k]] # <<>>
    /\ (Quiescent /\ CrashedUnits # {}) =>
          \A u \in launched : \A k \in DOMAIN posted[u] :
              (posted[u][k].type = "data" /\ BatchOf(u, posted[u][k]) \notin appendFailed)
                  => \A l \in Lines(posted[u][k]) : CopiesIn(l, outputFile) = 1

C7_Witness ==
    /\ Quiescent
    /\ \E u \in launched :
          /\ Crashed(u)
          /\ idx[u] = 1
          /\ Len(Chunk(u)) = 2
          /\ LinesOf(Chunk(u)[1]) = 2
          /\ attempts[Chunk(u)[2]] = <<>>
    /\ \E u \in launched :
          /\ upc[u] = "returned"
          /\ LinesOf(Chunk(u)[1]) = 2
    /\ result = "false"

\* ------------------------------------------------------------------- C8
DonePosted(u) == \E k \in DOMAIN posted[u] : posted[u][k].type = "done"

\* the thread of unit u has ended
Exited(u) == evExit[u] # "none"

\* C8: when scrapeFinancialDetails has returned its final signal, every
\* launched unit has posted done, crashed or exited.
C8_ReturnsAfterAllSettled ==
    Returned => \A u \in launched : DonePosted(u) \/ Crashed(u) \/ Exited(u)

C8_Witness ==
    /\ Returned
    /\ \E u, v \in launched :
          /\ u # v
          /\ Crashed(u)
          /\ DonePosted(v)
          /\ handled[v] = Len(posted[v])

\* ------------------------------------------------------------------- C9
FiveWorkerRun == NumberOfWorkers = 5 /\ Len(companiesFile.items) = 2

\* C9: once the workers are launched, the launched units are exactly the
\* chunks' indices, unit i has chunk i, and every other worker slot stays
\* unstarted; with 5 workers and 2 items exactly units 1 and 2 are launched
\* and, both items giving one record, the run returns success with 2 lines
\* in the output file.
C9_OneUnitPerChunk ==
    mpc \in {"waiting", "returned"} =>
        /\ launched = DOMAIN companyChunks
        /\ \A u \in launched :
              /\ workerData[u].companiesChunk = companyChunks[u]
              /\ workerData[u].workerId = u
        /\ \A u \in Units \ launched :
              upc[u] = "idle" /\ posted[u] = <<>> /\ evExit[u] = "none"
        /\ FiveWorkerRun => launched = {1, 2}
        /\ (FiveWorkerRun /\ Returned) => result = "true"
        /\ (FiveWorkerRun /\ Quiescent) => BagCardinality(outputFile) = 2

C9_Witness ==
    /\ FiveWorkerRun
    /\ Quiescent
    /\ launched = {1, 2}
    /\ \A u \in 3..5 : upc[u] = "idle"
    /\ LinesOf(1) = 1
    /\ LinesOf(2) = 1

\* ------------------------------------------------------------------ C10
EmptyRun == companiesFile.valid /\ companiesFile.items = <<>>

\* C10: with an empty item list the manager builds no chunk, launches no
\* unit, leaves the output file empty and returns success.
C10_EmptyList ==
    EmptyRun =>
        /\ mpc \in {"split", "waiting", "returned"} =>
              companyChunks = <<>> /\ outputFile = EmptyBag
        /\ launched = {}
        /\ \A u \in Units : upc[u] = "idle"
        /\ mpc # "aborted" => result \in {"none", "true"}
        /\ Returned => result = "true"

C10_Witness ==
    /\ EmptyRun
    /\ Returned
    /\ result = "true"
    /\ outputFile = EmptyBag
    /\ NumberOfWorkers = 2

\* ------------------------------------------------------------------ C11
\* some attempt for item x succeeded
Succeeded(x) == \E k \in DOMAIN attempts[x] : attempts[x][k].ok

\* C11: every line the run has put into the output file is a record of an
\* item for which an attempt succeeded; an item whose attempts all failed,
\* or that was never attempted, has no line.
C11_OnlySucceededItemsInSink ==
    /\ \A l \in BagToSet(outputFile) \ {StaleLine} :
          l[1] \in Items /\ Succeeded(l[1])
    /\ \A b \in inflight : b.item \in Items /\ Succeeded(b.item)
    /\ \A x \in Items : ~Succeeded(x) => LinesOf(x) = 0

C11_Witness ==
    /\ Quiescent
    /\ \E x, y, z \in Items :
          /\ LinesOf(x) = 2
          /\ AllAttemptsFailed(y) /\ LinesOf(y) = 0
          /\ attempts[z] = <<>> /\ LinesOf(z) = 0

\* ------------------------------------------------------------------ C12
\* the item identifiers of the data messages unit u has posted, in order
DataItems(u) ==
    LET IsData(m) == m.type = "data"
        d == SelectSeq(posted[u], IsData)
    IN  [k \in 1..Len(d) |-> d[k].item]

\* some attempt for item x succeeded and scraped at least one record
SucceededWithRecords(x) ==
    \E k \in DOMAIN attempts[x] : attempts[x][k].ok /\ attempts[x][k].n > 0

\* C12 as stated: within one unit, the item identifiers of the data
\* messages it has posted are, in order, the items of its chunk that
\* succeeded.
C12_DataOrderAllSuccesses ==
    \A u \in launched : DataItems(u) = SelectSeq(Chunk(u), Succeeded)

\* C12 amended: within one unit, the item identifiers of the data messages
\* it has posted are, in order, the items of its chunk that succeeded with
\* at least one record; an item that succeeded with no record has no data
\* message.
C12_DataOrderNonEmptySuccesses ==
    \A u \in launched :
        DataItems(u) = SelectSeq(Chunk(u), SucceededWithRecords)

C12_Witness ==
    \E u \in launched :
        /\ upc[u] = "returned"
        /\ Len(Chunk(u)) = 3
        /\ DataItems(u) = <<Chunk(u)[1], Chunk(u)[3]>>
        /\ AllAttemptsFailed(Chunk(u)[2])
        /\ Len(attempts[Chunk(u)[3]]) > 1

\* ------------------------------------------------------------------ C13
\* the units that made an attempt for item x
AttemptersOf(x) == {attempts[x][k].unit : k \in DOMAIN attempts[x]}

\* the items of unit u's chunk that u had not finished when it stopped
Leftovers(u) == {companyChunks[u][k] : k \in (idx[u] + 1)..Len(companyChunks[u])}

\* C13: every attempt for an item is made by the unit that was launched for
\* the chunk holding the item, so an item is attempted by at most one unit;
\* the items a crashed unit left behind are not attempted by any other unit.
C13_OnlyOwnerAttempts ==
    /\ \A x \in Items :
          /\ Cardinality(AttemptersOf(x)) <= 1
          /\ \A u \in AttemptersOf(x) :
                u \in launched /\ x \in Range(companyChunks[u])
    /\ \A u \in CrashedUnits : \A x \in Leftovers(u) : AttemptersOf(x) \subseteq {u}

C13_Witness ==
    /\ Quiescent
    /\ \E u \in CrashedUnits : \E v \in launched \ CrashedUnits :
          /\ idx[u] = 1
          /\ AttemptersOf(companyChunks[u][1]) = {u}
          /\ Leftovers(u) # {}
          /\ \A x \in Leftovers(u) : attempts[x] = <<>>
          /\ upc[v] = "returned"
          /\ \A x \in Range(companyChunks[v]) : AttemptersOf(x) = {v}

\* ------------------------------------------------------------------ C14
\* C14: called with a worker count below 1, scrapeFinancialDetails returns
\* failure without launching a unit: it does not report success and it does
\* not fail to terminate.
C14_BadWorkerCountFails ==
    NumberOfWorkers < 1 =>
        /\ launched = {}
        /\ mpc # "diverged"
        /\ result # "true"

\* ------------------------------------------------------------------ C15
\* C15: when the cookies file is invalid the run is aborted before any unit
\* is launched: no Worker is created and the run does not report success.
C15_InvalidCookiesAbortBeforeLaunch ==
    ~cookiesFile.valid =>
        /\ launched = {}
        /\ result # "true"

\* ------------------------------------------------------------------ C16
\* C16: when the companies file cannot be read, is not JSON or is not an
\* array, scrapeFinancialDetails returns failure, creates no Worker and
\* leaves the output file with the content it had before the call.
C16_BadCompaniesFile ==
    ~companiesFile.valid =>
        /\ mpc \in {"start", "aborted"}
        /\ mpc = "aborted" => result = "false"
        /\ result # "true"
        /\ launched = {}
        /\ outputFile = SetToBag({StaleLine})

C16_Witness ==
    /\ ~companiesFile.valid
    /\ mpc = "aborted"
    /\ result = "false"
    /\ launched = {}
    /\ CopiesIn(StaleLine, outputFile) = 1

\* ------------------------------------------------------------------ C17
\* every attempt the retry policy allows for item x was made, and all failed
Exhausted(u, x) ==
    AllAttemptsFailed(x) /\ Len(attempts[x]) = MaxRetriesOf(u) + 1

\* C17: a unit that has used up the attempts of an item goes on to the next
\* item of its chunk; a unit that established its session and did not crash
\* has attempted every item it has passed, and when it has finished, every
\* item of its chunk.
C17_ContinuesAfterExhaustion ==
    \A u \in launched :
        /\ \A k \in DOMAIN Chunk(u) :
              Exhausted(u, Chunk(u)[k]) =>
                  /\ idx[u] >= k
                  /\ (k < Len(Chunk(u)) /\ idx[u] = k /\ ~Crashed(u))
                        => upc[u] = "attempt" /\ Company(u) = Chunk(u)[k + 1]
        /\ upc[u] \in {"attempt", "finish", "returned"} =>
              \A k \in 1..idx[u] : attempts[Chunk(u)[k]] # <<>>
        /\ upc[u] \in {"finish", "returned"} =>
              \A k \in DOMAIN Chunk(u) : attempts[Chunk(u)[k]] # <<>>

C17_Witness ==
    \E u \in launched :
        /\ upc[u] = "returned"
        /\ Len(Chunk(u)) = 3
        /\ MaxRetriesOf(u) = 2
        /\ Exhausted(u, Chunk(u)[1])
        /\ Succeeded(Chunk(u)[2])
        /\ Exhausted(u, Chunk(u)[3])

\* ------------------------------------------------------------------ C18
\* unit u has started an item that comes after the k-th of its chunk
StartedAfter(u, k) == upc[u] # "start" /\ idx[u] >= k

\* C18 as stated: once a unit has gone past an item that succeeded, it has
\* posted a data message for that item.
C18_DataForEverySuccess ==
    \A u \in launched : \A k \in DOMAIN Chunk(u) :
        (Succeeded(Chunk(u)[k]) /\ StartedAfter(u, k))
            => MsgsOf(u, "data", Chunk(u)[k]) # {}

\* C18 amended: once a unit has gone past an item that succeeded with at
\* least one record, it has posted exactly one data message for that item,
\* and the message comes before every message about a later item; a data
\* message carries the records of one item of the chunk, as many as the
\* successful attempt for that item scraped; an item that succeeded with no
\* record has no data message.
C18_DataPerNonEmptySuccess ==
    \A u \in launched :
        /\ \A k \in DOMAIN Chunk(u) :
              LET x == Chunk(u)[k]
              IN  /\ (SucceededWithRecords(x) /\ StartedAfter(u, k)) =>
                        /\ Cardinality(MsgsOf(u, "data", x)) = 1
                        /\ \A m \in MsgsOf(u, "data", x) :
                              \A j \in (k + 1)..Len(Chunk(u)) :
                                  \A m2 \in DOMAIN posted[u] :
                                      posted[u][m2].item = Chunk(u)[j] => m < m2
                  /\ ~SucceededWithRecords(x) => MsgsOf(u, "data", x) = {}
        /\ \A m \in DOMAIN posted[u] :
              posted[u][m].type = "data" =>
                  /\ posted[u][m].item \in Range(Chunk(u))
                  /\ \E a \in DOMAIN attempts[posted[u][m].item] :
                        /\ attempts[posted[u][m].item][a].ok
                        /\ attempts[posted[u][m].item][a].n = posted[u][m].n

C18_Witness ==
    \E u \in launched :
        /\ Crashed(u)
        /\ idx[u] = 1
        /\ Len(Chunk(u)) = 3
        /\ posted[u] = <<DataMsg(Chunk(u)[1], 2)>>
        /\ attempts[Chunk(u)[2]] = <<>>

\* ------------------------------------------------------------------ C19
\* unit u posted the error of a failed cookie load or browser launch
SessionFailed(u) ==
    \E k \in DOMAIN posted[u] :
        /\ posted[u][k].type = "error"
        /\ posted[u][k].reason \in {CookieFault, CriticalFault}

\* C19: a unit that cannot load the cookies or launch the browser posts an
\* error message and ends; no item of its chunk is attempted and it posts no
\* data.  Every other unit was launched all the same, has ended when the run
\* returns, and if it ended normally it attempted every item of its chunk.
C19_SessionFailureIsLocal ==
    \A u \in launched :
        /\ upc[u] = "nosession" <=> SessionFailed(u)
        /\ SessionFailed(u) =>
              /\ \A k \in DOMAIN Chunk(u) : attempts[Chunk(u)[k]] = <<>>
              /\ \A k \in DOMAIN posted[u] : posted[u][k].type # "data"
              /\ launched = SlotsToLaunch(companyChunks, NumberOfWorkers)
              /\ \A v \in launched \ {u} :
                    /\ Returned => ~Running(v)
                    /\ upc[v] = "returned" =>
                          \A k \in DOMAIN Chunk(v) : attempts[Chunk(v)[k]] # <<>>

C19_Witness ==
    /\ Quiescent
    /\ cookiesFile.valid
    /\ \E u, v \in launched :
          /\ SessionFailed(u)
          /\ Len(Chunk(u)) = 2
          /\ \A k \in DOMAIN Chunk(u) : LinesOf(Chunk(u)[k]) = 0
          /\ upc[v] = "returned"
          /\ LinesOf(Chunk(v)[1]) = 2

\* ------------------------------------------------------------------ C20
\* every fault that has happened so far is a failed append
OnlyAppendFaults == Cardinality(appendFailed) = MaxFaults - faultsLeft

\* C20: once an append to the output file has failed, the manager's flag is
\* cleared and the run goes on: the failed batch is not appended again and
\* none of its lines is in the file; the units are not stopped (when failed
\* appends are the only faults, every unit is running or ended normally, and
\* a unit that ended normally attempted its whole chunk); every other batch
\* the units posted is appended once the run is over.
C20_AppendFailureContinues ==
    appendFailed # {} =>
        /\ ~overallSuccess
        /\ \A b \in appendFailed :
              /\ b \notin inflight
              /\ \A l \in Lines(b) : CopiesIn(l, outputFile) = 0
        /\ \A u \in launched :
              /\ (cookiesFile.valid /\ OnlyAppendFaults) =>
                    /\ Running(u) \/ upc[u] = "returned"
                    /\ Returned => upc[u] = "returned"
              /\ upc[u] = "returned" =>
                    \A k \in DOMAIN Chunk(u) : attempts[Chunk(u)[k]] # <<>>
        /\ Quiescent =>
              \A u \in launched : \A k \in DOMAIN posted[u] :
                  (posted[u][k].type = "data"
                      /\ BatchOf(u, posted[u][k]) \notin appendFailed)
                      => \A l \in Lines(posted[u][k]) : CopiesIn(l, outputFile) = 1

C20_Witness ==
    /\ Quiescent
    /\ \E u \in launched :
          /\ upc[u] = "returned"
          /\ Len(Chunk(u)) = 2
          /\ [unit |-> u, item |-> Chunk(u)[1], n |-> 2] \in appendFailed
          /\ LinesOf(Chunk(u)[1]) = 0
          /\ LinesOf(Chunk(u)[2]) = 2
    /\ \A u \in launched : upc[u] = "returned"

\* ------------------------------------------------------------------ C21
\* unit u posted an error message
ErrorPosted(u) == \E k \in DOMAIN posted[u] : posted[u][k].type = "error"

\* C21: an error message clears the manager's flag when it is handled, and
\* a run in which a unit posted one returns failure.  Nothing is stopped by
\* it: a unit that posted the error of an item is at a later item or has
\* finished, unless it crashed, and one that finished attempted its whole
\* chunk; when the run is over every data message of every unit, also one
\* posted after an error message, has its lines in the file.
C21_ErrorMessageStopsNothing ==
    /\ Received("error") => ~overallSuccess
    /\ (Returned /\ \E u \in launched : ErrorPosted(u)) => result = "false"
    /\ \A u \in launched : \A k \in DOMAIN Chunk(u) :
          MsgsOf(u, "error", Chunk(u)[k]) # {} =>
              /\ idx[u] >= k
              /\ Running(u) \/ upc[u] \in {"returned", "unclosed"} \/ Crashed(u)
              /\ upc[u] \in {"returned", "unclosed"} =>
                    \A j \in DOMAIN Chunk(u) : attempts[Chunk(u)[j]] # <<>>
    /\ Quiescent =>
          \A u \in launched : \A k \in DOMAIN posted[u] :
              (posted[u][k].type = "data"
                  /\ BatchOf(u, posted[u][k]) \notin appendFailed)
                  => \A l \in Lines(posted[u][k]) : CopiesIn(l, outputFile) = 1

C21_Witness ==
    /\ Quiescent
    /\ faultsLeft = MaxFaults
    /\ result = "false"
    /\ \E u, v \in launched :
          /\ u # v
          /\ Len(Chunk(u)) = 2
          /\ posted[u] = <<ErrorMsg(Chunk(u)[1], 0), DataMsg(Chunk(u)[2], 2), DoneMsg>>
          /\ LinesOf(Chunk(u)[2]) = 2
          /\ ~ErrorPosted(v)
          /\ LinesOf(Chunk(v)[1]) = 2

\* ------------------------------------------------------------------ C22
\* C22: at no time are two appends to the output file in flight.
C22_OneAppendAtATime == Cardinality(inflight) <= 1

\* ------------------------------------------------------------------ C23
\* C23: a fault inside runWorker reaches the manager as an error message
\* and never as the crash event of the worker: a step in which closing the
\* browser fails posts an error message and raises no 'error' event.
C23_FaultsBecomeMessages ==
    [][\A u \in Units :
          CloseBrowserFail(u) =>
              /\ evError'[u] = "none"
              /\ Len(posted'[u]) > Len(posted[u])
              /\ posted'[u][Len(posted[u]) + 1].type = "error"]_vars

\* ------------------------------------------------------------------ C24
\* the complete lines of a text: its maximal newline-free stretches that a
\* newline ends
RECURSIVE CompleteLines(_, _)
CompleteLines(text, cur) ==
    IF text = <<>> THEN <<>>
    ELSE IF Head(text) = NL
         THEN <<cur>> \o CompleteLines(Tail(text), <<>>)
         ELSE CompleteLines(Tail(text), Append(cur, Head(text)))

\* a line is the text of one record
ValidRecord(line) ==
    \E x \in Items : \E j \in 1..2 : line = Stringify(x, j)

\* C24: every complete line of the output file is the text of one whole
\* record, at every point of the run; and when no append is in flight the
\* file ends with a newline and has one line per record of every data
\* message whose append did not fail.
C24_CompleteLinesAreRecords ==
    LET ls == CompleteLines(fileBytes, <<>>)
    IN  /\ \A k \in DOMAIN ls : ValidRecord(ls[k])
        /\ writes = {} =>
              /\ fileBytes = <<>> \/ fileBytes[Len(fileBytes)] = NL
              /\ \A x \in Items : \A j \in 1..2 :
                    Cardinality({k \in DOMAIN ls : ls[k] = Stringify(x, j)})
                        = CopiesIn(<<x, j>>, outputFile)

\* ------------------------------------------------------------------ C25
\* the text of a line is valid JSON: one value, blanks around it allowed
IsObjectText(line) ==
    \E x \in 1..2 : Trim(line) = Stringify(x, 1)

IsNullText(line) == Trim(line) = <<NullText>>

\* the value a valid line stands for
ValueOf(line) ==
    IF IsNullText(line) THEN NullValue
    ELSE ObjectValue(Trim(line)[1].item, Trim(line)[1].rec)

\* the lines of the file, in order, that pass the test
LinesThat(Test(_)) == SelectSeq(SplitLines(fileBytes, <<>>), Test)

C26_StopsAtSuccessOrLimit ==
    \A u \in launched : \A x \in Range(Chunk(u)) :
        /\ Len(attempts[x]) <= MaxRetriesOf(u) + 1
        /\ \A k \in DOMAIN attempts[x] :
              attempts[x][k].ok => k = Len(attempts[x])

\* the first item succeeded at its second attempt, the second item used up
\* its three attempts, and the unit has moved past both
C26_Witness ==
    \E u \in launched :
        /\ MaxRetriesOf(u) = 2
        /\ Len(Chunk(u)) = 3
        /\ idx[u] = 2
        /\ Len(attempts[Chunk(u)[1]]) = 2
        /\ attempts[Chunk(u)[1]][2].ok
        /\ Exhausted(u, Chunk(u)[2])
        /\ Len(attempts[Chunk(u)[3]]) = 1

\* ------------------------------------------------------------------ C27
\* how often unit u did e for item x
Count(u, e, x) == Cardinality({p \in DOMAIN log[u] : log[u][p] = Ev(e, x)})

\* the last time unit u opened a page for item x (0: never)
LastNewPage(u, x) ==
    LET ps == {p \in DOMAIN log[u] : log[u][p] = Ev("newPage", x)}
    IN  IF ps = {} THEN 0 ELSE CHOOSE p \in ps : \A q \in ps : q <= p

\* C27: a retry delay or a final error for an item comes right after the
\* page of the failed attempt was closed (or no page was opened at all); a
\* delay is followed by another attempt for the same item; an item whose
\* attempts are used up has had exactly maxRetriesPerCompany delays, and no
\* delay and no final error follows the attempt that succeeded.
C27_PageClosedThenDelayOrError ==
    \A u \in launched :
        LET l == log[u] IN
        /\ \A p \in DOMAIN l :
              (l[p].e \in {"delay", "postError"} /\ l[p].item # 0) =>
                  /\ p > 1
                  /\ l[p - 1] \in {Ev("closePage", l[p].item),
                                   Ev("newPageFailed", l[p].item)}
        /\ \A p \in DOMAIN l :
              l[p].e = "delay" =>
                  IF p < Len(l)
                  THEN l[p + 1] \in {Ev("newPage", l[p].item),
                                     Ev("newPageFailed", l[p].item)}
                  ELSE Running(u) =>
                          upc[u] = "attempt" /\ Company(u) = l[p].item
        /\ \A x \in Range(Chunk(u)) :
              /\ Exhausted(u, x) =>
                    /\ Count(u, "delay", x) = MaxRetriesOf(u)
                    /\ Count(u, "postError", x) = 1
              /\ Succeeded(x) =>
                    /\ Count(u, "delay", x) = Len(attempts[x]) - 1
                    /\ Count(u, "postError", x) = 0
                    /\ \A p \in DOMAIN l :
                          l[p] = Ev("delay", x) => p < LastNewPage(u, x)

\* the first item timed out three times, the second succeeded at its second
\* attempt, after a first that could not open a page
C27_Witness ==
    \E u \in launched :
        /\ upc[u] = "returned"
        /\ MaxRetriesOf(u) = 2
        /\ Len(Chunk(u)) = 2
        /\ Exhausted(u, Chunk(u)[1])
        /\ Count(u, "timeout", Chunk(u)[1]) = 3
        /\ Count(u, "delay", Chunk(u)[1]) = 2
        /\ Succeeded(Chunk(u)[2])
        /\ Count(u, "newPageFailed", Chunk(u)[2]) = 1
        /\ Count(u, "delay", Chunk(u)[2]) = 1

\* ------------------------------------------------------------------ C28
\* the k-th item of the chunk of unit u is behind it
Passed(u, k) == upc[u] # "start" /\ idx[u] >= k

\* C28: the unit has paused exactly once after every item it has passed
\* that is not the last of its chunk, right after the item's last attempt
\* (page closed or final error posted) and before anything else, and never
\* after the last item: a finished chunk of k items has k - 1 pauses.
C28_OnePauseBetweenItems ==
    \A u \in launched :
        LET l == log[u] IN
        /\ \A k \in DOMAIN Chunk(u) :
              Count(u, "pause", Chunk(u)[k]) =
                  IF Passed(u, k) /\ k < Len(Chunk(u)) THEN 1 ELSE 0
        /\ \A p \in DOMAIN l :
              l[p].e = "pause" =>
                  /\ p > 1
                  /\ l[p - 1] \in {Ev("closePage", l[p].item),
                                   Ev("postError", l[p].item)}
                  /\ p < Len(l) => l[p + 1].e \in {"newPage", "newPageFailed"}
                                   /\ l[p + 1].item # l[p].item
        /\ upc[u] \in {"finish", "returned"} =>
              Cardinality({p \in DOMAIN l : l[p].e = "pause"}) = Len(Chunk(u)) - 1

\* a finished chunk of three items: the first used up its attempts, the
\* second succeeded, and the unit paused twice
C28_Witness ==
    \E u \in launched :
        /\ upc[u] = "returned"
        /\ Len(Chunk(u)) = 3
        /\ MaxRetriesOf(u) = 1
        /\ Exhausted(u, Chunk(u)[1])
        /\ Succeeded(Chunk(u)[2])
        /\ Count(u, "pause", Chunk(u)[1]) = 1
        /\ Count(u, "pause", Chunk(u)[2]) = 1
        /\ Count(u, "pause", Chunk(u)[3]) = 0

\* ------------------------------------------------------------------ C29
\* unit u did e
Did(u, e) == \E p \in DOMAIN log[u] : log[u][p].e = e

\* C29: a unit that launched its browser posts done only right after it has
\* closed the browser, whether its chunk was finished or an exception ended
\* it; a unit whose done was posted does not hold an open browser.
C29_BrowserClosedBeforeDone ==
    \A u \in launched :
        LET l == log[u] IN
        /\ \A p \in DOMAIN l :
              (l[p].e = "postDone" /\ Did(u, "launch")) =>
                  /\ p > 1
                  /\ l[p - 1].e = "closeBrowser"
        /\ (\E k \in DOMAIN posted[u] : posted[u][k] = DoneMsg) =>
              (Did(u, "launch") <=> Did(u, "closeBrowser"))
        /\ upc[u] = "unclosed" =>
              \A k \in DOMAIN posted[u] : posted[u][k] # DoneMsg

\* the second entry of the list threw after the first item was scraped:
\* critical error, browser closed, done
C29_Witness ==
    \E u \in launched :
        /\ upc[u] = "returned"
        /\ Len(Chunk(u)) = 2
        /\ Succeeded(Chunk(u)[1])
        /\ attempts[Chunk(u)[2]] = <<>>
        /\ log[u][Len(log[u]) - 3] = Ev("threw", Chunk(u)[2])
        /\ log[u][Len(log[u]) - 1] = Ev("closeBrowser", 0)
        /\ log[u][Len(log[u])] = Ev("postDone", 0)
        /\ posted[u][Len(posted[u])] = DoneMsg

\* ------------------------------------------------------------------ C30
\* in this step an attempt of unit u timed out
TimedOut(u) ==
    \E p \in (Len(log[u]) + 1)..Len(log'[u]) : log'[u][p].e = "timeout"

\* C30: an attempt that times out is recorded as one failed attempt of its
\* item, within the maxRetriesPerCompany + 1 the item has; the thread does
\* not end; when attempts are left the unit stays on the item for the next
\* attempt, otherwise it posts the item's final error and moves to the next
\* item, or to the end of its chunk.
C30_TimeoutIsFailedAttempt ==
    [][\A u \in Units :
          TimedOut(u) =>
              LET x == Company(u)
                  R == MaxRetriesOf(u)
              IN  /\ attempts'[x] = Append(attempts[x], [unit |-> u, ok |-> FALSE, n |-> 0])
                  /\ Len(attempts'[x]) = attempt[u] + 1
                  /\ Len(attempts'[x]) <= R + 1
                  /\ evError'[u] = "none" /\ evExit'[u] = "none"
                  /\ IF Len(attempts'[x]) < R + 1
                     THEN /\ upc'[u] = "attempt"
                          /\ idx'[u] = idx[u]
                          /\ attempt'[u] = attempt[u] + 1
                          /\ posted'[u] = posted[u]
                     ELSE /\ Len(posted'[u]) = Len(posted[u]) + 1
                          /\ posted'[u][Len(posted'[u])].type = "error"
                          /\ posted'[u][Len(posted'[u])].item = x
                          /\ idx'[u] = idx[u] + 1
                          /\ attempt'[u] = 0
                          /\ upc'[u] = IF idx[u] + 1 < Len(Chunk(u))
                                       THEN "attempt" ELSE "finish"]_vars

\* the first item timed out once and then succeeded, the second timed out at
\* both of its attempts, and the unit finished its chunk
C30_Witness ==
    \E u \in launched :
        /\ upc[u] = "returned"
        /\ MaxRetriesOf(u) = 1
        /\ Len(Chunk(u)) = 2
        /\ Count(u, "timeout", Chunk(u)[1]) = 1
        /\ Len(attempts[Chunk(u)[1]]) = 2
        /\ Succeeded(Chunk(u)[1])
        /\ Count(u, "timeout", Chunk(u)[2]) = 2
        /\ Exhausted(u, Chunk(u)[2])
        /\ Did(u, "postDone")

\* ------------------------------------------------------------------ C31
\* the place of item x in the chunk of unit u
PosIn(u, x) == CHOOSE k \in DOMAIN Chunk(u) : Chunk(u)[k] = x

\* pages unit u holds open after the first p things it did
OpenPages(u, p) ==
    Cardinality({q \in 1..p : log[u][q].e = "newPage"})
        - Cardinality({q \in 1..p : log[u][q].e = "closePage"})

\* unit u has begun an attempt for item x
Begun(u, x) ==
    \E p \in DOMAIN log[u] :
        log[u][p] \in {Ev("newPage", x), Ev("newPageFailed", x), Ev("threw", x)}

\* C31: a unit works on one item at a time: what it does for an item of its
\* chunk never comes before what it does for an earlier item, an item is
\* begun only when the item before it has succeeded or has used up its
\* attempts, and the unit never holds more than one open page.
C31_OneItemAtATime ==
    \A u \in launched :
        LET l == log[u] IN
        /\ \A p, q \in DOMAIN l :
              (p < q /\ l[p].item # 0 /\ l[q].item # 0) =>
                  PosIn(u, l[p].item) <= PosIn(u, l[q].item)
        /\ \A k \in DOMAIN Chunk(u) :
              (k > 1 /\ Begun(u, Chunk(u)[k])) =>
                  \/ Succeeded(Chunk(u)[k - 1])
                  \/ Exhausted(u, Chunk(u)[k - 1])
        /\ \A p \in DOMAIN l : OpenPages(u, p) \in {0, 1}
        /\ \A p \in DOMAIN l :
              l[p].e = "newPage" => OpenPages(u, p - 1) = 0

\* the unit is at its second item, in the middle of its attempts, after the
\* first item used up three attempts
C31_Witness ==
    \E u \in launched :
        /\ upc[u] = "attempt"
        /\ MaxRetriesOf(u) = 2
        /\ Len(Chunk(u)) = 2
        /\ Exhausted(u, Chunk(u)[1])
        /\ Count(u, "newPage", Chunk(u)[1]) = 3
        /\ Len(attempts[Chunk(u)[2]]) = 2
        /\ Count(u, "newPage", Chunk(u)[2]) = 2
        /\ OpenPages(u, Len(log[u])) = 0

\* ------------------------------------------------------------------ C32
\* C32: if from some time on no launched unit is still running (each has
\* posted done, crashed or exited), scrapeFinancialDetails returns; a worker
\* slot that was skipped has no promise the return could wait for.
C32_ReturnsWhenUnitsEnd ==
    (<>[](\A u \in Units : ~Running(u))) => <>(result # "none")

\* one slot of three was launched, its unit crashed, and the call has
\* returned
C32_Witness ==
    /\ mpc = "returned"
    /\ result = "false"
    /\ NumberOfWorkers = 3
    /\ Len(companyChunks) = 1
    /\ launched = {1}
    /\ promise[1] = "rejected"
    /\ promise[2] = "none"
    /\ promise[3] = "none"
    /\ upc[1] = "crashed"

\* ------------------------------------------------------------------ C33
\* the data messages of unit u the manager has received
DataReceived(u) ==
    {k \in 1..handled[u] : posted[u][k].type = "data"}

\* C33: once scrapeFinancialDetails has returned, no append is in flight,
\* and every data message it received is in the output file in full or its
\* append failed and the value returned is false.
C33_NoAppendInFlightAtReturn ==
    Returned =>
        /\ inflight = {}
        /\ \A u \in launched : \A k \in DataReceived(u) :
              \/ \A j \in 1..posted[u][k].n :
                    CopiesIn(<<posted[u][k].item, j>>, outputFile) = 1
              \/ /\ \E b \in appendFailed : b.item = posted[u][k].item
                 /\ result = "false"

\* ------------------------------------------------------------------ C34
\* C34: a unit posts at most one message about an item of its chunk: one
\* data message or one error message, never both, never two of a kind.
C34_OneMessagePerItem ==
    \A u \in launched : \A x \in Range(Chunk(u)) :
        /\ Cardinality(MsgsOf(u, "data", x)) <= 1
        /\ Cardinality(MsgsOf(u, "error", x)) <= 1
        /\ MsgsOf(u, "data", x) = {} \/ MsgsOf(u, "error", x) = {}

\* a finished chunk of three items: data for the first, which succeeded at
\* its third attempt, an error for the second, and nothing for the third,
\* which succeeded without a record
C34_Witness ==
    \E u \in launched :
        /\ upc[u] = "returned"
        /\ Len(Chunk(u)) = 3
        /\ MaxRetriesOf(u) = 2
        /\ Len(attempts[Chunk(u)[1]]) = 3
        /\ Cardinality(MsgsOf(u, "data", Chunk(u)[1])) = 1
        /\ Exhausted(u, Chunk(u)[2])
        /\ Cardinality(MsgsOf(u, "error", Chunk(u)[2])) = 1
        /\ Succeeded(Chunk(u)[3])
        /\ MsgsOf(u, "data", Chunk(u)[3]) = {}
        /\ Len(posted[u]) = 3

\* ------------------------------------------------------------------ C35
\* C35: no step of the run sets overallSuccess back to true once it is
\* false.
C35_FlagNeverRestored ==
    [][~overallSuccess => ~overallSuccess']_vars

\* the flag was cleared by the error message of a unit that then scraped
\* its second item, posted done and exited with code 0; the append
\* succeeded, no promise was rejected, and the call returned false
C35_Witness ==
    /\ Returned
    /\ result = "false"
    /\ ~overallSuccess
    /\ appendFailed = {}
    /\ inflight = {}
    /\ \A u \in launched : promise[u] = "fulfilled"
    /\ \E u \in launched :
          /\ Len(Chunk(u)) = 2
          /\ Cardinality(MsgsOf(u, "error", Chunk(u)[1])) = 1
          /\ Cardinality(MsgsOf(u, "data", Chunk(u)[2])) = 1
          /\ handled[u] = Len(posted[u])
          /\ evExit[u] = "handled0"
          /\ CopiesIn(<<Chunk(u)[2], 1>>, outputFile) = 1

\* ------------------------------------------------------------------ C36
\* the step in which the manager empties the output file
Empties == mpc = "loaded" /\ mpc' = "initialized"

\* C36: the output file is emptied in one step of the run only, which comes
\* after the item list was loaded and before any unit is launched and is
\* never taken a second time; every other step leaves in the file all that
\* was in it.
C36_EmptiedOnceBeforeLaunch ==
    [][/\ Empties =>
             /\ outputFile' = EmptyBag
             /\ companiesData = companiesFile.items
             /\ launched = {}
             /\ \A u \in Units : upc[u] = "idle"
       /\ ~Empties => outputFile \sqsubseteq outputFile'
       /\ mpc' = "loaded" => mpc = "start"]_vars

\* the stale line is gone and the records of two items, appended one batch
\* after the other, are both in the file when the call has returned
C36_Witness ==
    /\ Returned
    /\ inflight = {}
    /\ CopiesIn(StaleLine, outputFile) = 0
    /\ \A x \in {1, 2} : \A j \in {1, 2} : CopiesIn(<<x, j>>, outputFile) = 1

\* ------------------------------------------------------------------ C37
\* positions of the done messages unit u has posted
DonePositions(u) == {k \in DOMAIN posted[u] : posted[u][k] = DoneMsg}

\* unit u could not load its cookies
CookiesFailed(u) ==
    \E k \in DOMAIN posted[u] : posted[u][k] = ErrorMsg(0, CookieFault)

\* C37: a unit posts done at most once, and done is the last message it
\* posts; a unit that failed to load its cookies has posted its error and no
\* done, and its promise is settled by its exit event and by nothing else.
C37_DoneOnceAndLast ==
    \A u \in launched :
        /\ Cardinality(DonePositions(u)) <= 1
        /\ \A k \in DonePositions(u) : k = Len(posted[u])
        /\ CookiesFailed(u) =>
              /\ DonePositions(u) = {}
              /\ posted[u] = <<ErrorMsg(0, CookieFault)>>
              /\ evError[u] = "none"
              /\ evExit[u] \in {"pending0", "handled0"}
              /\ promise[u] = IF evExit[u] = "handled0"
                              THEN "fulfilled" ELSE "pending"

\* one unit could not load its cookies and was settled by its exit; another
\* posted data, an error and then done, and the call has returned
C37_Witness ==
    /\ Returned
    /\ \E u, v \in launched :
          /\ CookiesFailed(u)
          /\ promise[u] = "fulfilled"
          /\ evExit[u] = "handled0"
          /\ upc[v] = "returned"
          /\ Len(posted[v]) = 3
          /\ posted[v][1].type = "data"
          /\ posted[v][2].type = "error"
          /\ posted[v][3] = DoneMsg

\* ------------------------------------------------------------------ C38
\* the k-th module call of runPipeline was scrapeFinancialDetails and failed
ScrapeFailedAt(k) ==
    pipeline.ran[k] = [step |-> "scrapeFinancialDetails", ok |-> FALSE]

\* C38: when scrapeFinancialDetails has returned failure to runPipeline, it
\* is the last module runPipeline calls: merge, pivot and the CSV
\* conversions are not executed; the pipeline is marked failed, no
\* intermediate file is deleted, and runPipeline ends with exit code 1.
C38_ScrapeFailureStopsPipeline ==
    \A k \in DOMAIN pipeline.ran :
        ScrapeFailedAt(k) =>
            /\ k = Len(pipeline.ran)
            /\ ~pipeline.status.overallSuccess
            /\ ~pipeline.status.financialsScraped
            /\ pipeline.pc \in {"cleanup", "done"}
            /\ pipeline.deleted = {}
            /\ pipeline.pc = "done" => pipeline.exitCode = 1

\* every step and the cleanup are enabled, the two company steps completed,
\* the scraping failed, and runPipeline has ended
C38_Witness ==
    /\ pipeline.pc = "done"
    /\ pipeline.config.stepsToRun = StepFlags
    /\ pipeline.config.outputFormats = OutputFormats
    /\ pipeline.config.cleanupIntermediateFiles
    /\ Len(pipeline.ran) = 3
    /\ ScrapeFailedAt(3)
    /\ pipeline.status.companiesProcessed
    /\ pipeline.exitCode = 1

\* ------------------------------------------------------------------ C39
\* C39: the promise of a unit is settled once: by the done message
\* (fulfilled), by the error event of the thread (rejected) or by the exit
\* event (fulfilled for code 0, rejected otherwise), whichever the manager
\* handles first; whatever is handled later leaves it as it is.
C39_SettledOnce ==
    [][\A u \in Units :
          /\ promise[u] \in {"fulfilled", "rejected"} => promise'[u] = promise[u]
          /\ (promise[u] = "pending" /\ promise'[u] # "pending") =>
                \/ /\ promise'[u] = "fulfilled"
                   /\ handled'[u] = handled[u] + 1
                   /\ posted[u][handled'[u]] = DoneMsg
                \/ /\ promise'[u] = "rejected"
                   /\ evError[u] = "pending"
                   /\ evError'[u] = "handled"
                \/ /\ evExit[u] = "pending0"
                   /\ evExit'[u] = "handled0"
                   /\ promise'[u] = "fulfilled"
                \/ /\ evExit[u] = "pending1"
                   /\ evExit'[u] = "handled1"
                   /\ promise'[u] = "rejected"]_vars

\* one unit was settled by its done message and then exited with code 0,
\* another by its crash and then exited with code 1; both events of each
\* were handled
C39_Witness ==
    \E u, v \in launched :
        /\ DonePosted(u)
        /\ handled[u] = Len(posted[u])
        /\ evExit[u] = "handled0"
        /\ promise[u] = "fulfilled"
        /\ evError[v] = "handled"
        /\ evExit[v] = "handled1"
        /\ promise[v] = "rejected"

====
